---- MODULE Spec2Model ----
(***************************************************************************)
(* A model of the query-optimization core: the GROUP BY / aggregate        *)
(* builder (optbuilder), the constant / projection inliner (norm) and the  *)
(* cost model (xform).  Each component has its own specification over the  *)
(* shared variables; the variables of the other components stay idle.      *)
(***************************************************************************)
EXTENDS Integers, Sequences, FiniteSets, TLC

VARIABLES
    pc,         \* optbuilder: position of the build pass over one SELECT
    aggIn,      \* optbuilder: scope id -> columns of that scope's aggInScope
    aggOut,     \* optbuilder: scope id -> columns of that scope's aggOutScope
    aggs,       \* optbuilder: scope id -> groupby.aggs of that scope
    groupStrs,  \* optbuilder: fromScope.groupby.groupStrs (string -> column id)
    nextCol,    \* optbuilder: next column id the metadata hands out
    last,       \* optbuilder: the last builder call, its inputs and its result
    norm,       \* norm: the rule function applied, its inputs and its result
    costing,    \* xform: the candidate costed and the result of ComputeCost
    colsets     \* opt: the column sets in hand, their storage and the last call

vars == <<pc, aggIn, aggOut, aggs, groupStrs, nextCol, last, norm, costing, colsets>>

(***************************************************************************)
(* Expressions.  Every expression (AST or memo scalar) is a record of one  *)
(* shape, so that any two can be compared: an operator, a value (column id *)
(* or constant) and the ordered children.                                  *)
(***************************************************************************)
Node(o, v, k) == [op |-> o, val |-> v, kids |-> k]

NilExpr == Node("nil", 0, <<>>)

ConstructVariable(col) == Node("Variable", col, <<>>)

ConstructConst(v) == Node("Const", v, <<>>)

ConstructPlus(l, r) == Node("Plus", 0, <<l, r>>)

ConstructAggDistinct(x) == Node("AggDistinct", 0, <<x>>)

ConstructAggFilter(x, cond) == Node("AggFilter", 0, <<x, cond>>)

RECURSIVE VarRefs(_)
\* The columns an expression refers to.
VarRefs(e) ==
    IF e.op = "Variable" THEN {e.val}
    ELSE UNION {VarRefs(e.kids[i]) : i \in 1..Len(e.kids)}

Range(s) == {s[i] : i \in 1..Len(s)}

RECURSIVE SeqsUpTo(_, _)
\* All sequences over S of length at most n.
SeqsUpTo(S, n) ==
    IF n = 0 THEN {<<>>}
    ELSE LET shorter == SeqsUpTo(S, n - 1)
         IN  shorter \cup {Append(q, x) : q \in shorter, x \in S}

(***************************************************************************)
(* optbuilder: scopes.  Scope 1 is the SELECT being built (fromScope);     *)
(* scope 2 is its parent, the owner of correlated aggregates.              *)
(***************************************************************************)
MaxAggCalls == 2

MaxGroupBy == 2

ScopeIds == {1, 2}

\* The FROM columns visible in each scope.
FromCols(s) == IF s = 1 THEN {1, 2} ELSE {3}

\* Synthesized columns get the ids after the FROM columns.
FirstSynthesizedCol == Cardinality(FromCols(1) \cup FromCols(2)) + 1

ScopeColumn(i, sc) == [id |-> i, scalar |-> sc]

ColIds(cols) == {cols[i].id : i \in 1..Len(cols)}

\* tree.FuncExpr as the type checker hands it to buildAggregateFunction.
FuncExpr(n, d, ex, fl, ob) ==
    [name |-> n, distinct |-> d, exprs |-> ex, filter |-> fl, orderBy |-> ob]

Col1 == ConstructVariable(1)

Col1Plus1 == ConstructPlus(ConstructVariable(1), ConstructConst(1))

BoolCol2 == ConstructVariable(2)

OuterCol3 == ConstructVariable(3)

\* The aggregate calls the SELECT list may hold: zero, one and two arguments,
\* bare and computed arguments, DISTINCT, FILTER, ORDER BY and a correlated one.
FuncExprs ==
    {FuncExpr("count_rows", FALSE, <<>>, fl, FALSE) : fl \in {NilExpr, BoolCol2}}
    \cup {FuncExpr("sum", FALSE, <<Col1>>, NilExpr, FALSE),
          FuncExpr("sum", TRUE, <<Col1>>, NilExpr, FALSE),
          FuncExpr("sum", FALSE, <<Col1>>, BoolCol2, FALSE),
          FuncExpr("sum", TRUE, <<Col1Plus1>>, BoolCol2, FALSE),
          FuncExpr("sum", FALSE, <<OuterCol3>>, NilExpr, FALSE),
          FuncExpr("sum", FALSE, <<Col1>>, NilExpr, TRUE)}
    \cup {FuncExpr("array_agg", FALSE, <<Col1>>, NilExpr, ob) : ob \in BOOLEAN}
    \cup {FuncExpr("string_agg", FALSE, <<Col1, sep>>, NilExpr, FALSE) :
            sep \in {ConstructConst(7), BoolCol2}}

(***************************************************************************)
(* optbuilder: buildAggregateFunction and its helpers.                     *)
(***************************************************************************)
\* buildScalar into the column addColumn appended: a bare column reference
\* passes the referenced column through (no scalar, no new id); anything else
\* becomes a synthesized column with a fresh id and the built scalar.
buildAggArg(e, cols, nxt) ==
    IF e.op = "Variable"
    THEN [cols |-> Append(cols, ScopeColumn(e.val, NilExpr)),
          arg  |-> ConstructVariable(e.val),
          next |-> nxt]
    ELSE [cols |-> Append(cols, ScopeColumn(nxt, e)),
          arg  |-> e,
          next |-> nxt + 1]

RECURSIVE buildAggArgs(_, _, _)
\* The loop over f.Exprs: one buildAggArg per argument, in order.
buildAggArgs(exprs, cols, nxt) ==
    IF exprs = <<>> THEN [cols |-> cols, args |-> <<>>, next |-> nxt]
    ELSE LET n     == Len(exprs)
             front == buildAggArgs(SubSeq(exprs, 1, n - 1), cols, nxt)
             one   == buildAggArg(exprs[n], front.cols, front.next)
         IN  [cols |-> one.cols,
              args |-> Append(front.args, one.arg),
              next |-> one.next]

\* The scope closest to scope 1 that owns one of the referenced columns, or
\* scope 1 itself when the aggregate references no column.
endAggFunc(colRefs) ==
    IF colRefs = {} \/ colRefs \cap FromCols(1) # {} THEN 1 ELSE 2

SameAggregate(a, b) ==
    /\ a.def = b.def
    /\ a.distinct = b.distinct
    /\ a.filter = b.filter
    /\ a.args = b.args

\* The output column of the first aggregate of the scope equal to info, or 0.
\* Aggregate columns are the first len(aggs) columns of the aggOutScope.
findAggregate(scopeAggs, outCols, info) ==
    LET hits == {i \in 1..Len(scopeAggs) : SameAggregate(scopeAggs[i], info)}
    IN  IF hits = {} THEN 0
        ELSE outCols[CHOOSE i \in hits : \A j \in hits : i <= j].id

undoAggArgs_Skipped(tempCols, tempBefore) == tempCols

\* "Undo the adding of the args": tempScope.cols[:tempScopeColsBefore].
undoAggArgs(tempCols, tempBefore) == SubSeq(tempCols, 1, tempBefore)

\* buildAggregateFunction: build the arguments and the filter into tempScope
\* (the aggInScope of scope 1), find the owning scope, then either reuse an
\* equal aggregate and undo the temporary columns, or synthesize the output
\* column, move the argument columns to the owning aggInScope and append.
buildAggregateFunction(f, In, Out, Ag, nxt) ==
    LET tempBefore == Len(In[1])
        argsBuilt  == buildAggArgs(f.exprs, In[1], nxt)
        filtBuilt  == IF f.filter # NilExpr
                      THEN buildAggArg(f.filter, argsBuilt.cols, argsBuilt.next)
                      ELSE [cols |-> argsBuilt.cols, arg |-> NilExpr,
                            next |-> argsBuilt.next]
        refs       == UNION {VarRefs(f.exprs[i]) : i \in 1..Len(f.exprs)}
                        \cup VarRefs(f.filter)
        target     == endAggFunc(refs)
        info0      == [def |-> f.name, distinct |-> f.distinct,
                       args |-> argsBuilt.args, filter |-> filtBuilt.arg,
                       orderBy |-> f.orderBy, colRefs |-> refs, col |-> 0]
        found      == findAggregate(Ag[target], Out[target], info0)
        tempCols   == filtBuilt.cols
        newId      == filtBuilt.next
        info       == [info0 EXCEPT !.col = newId]
    IN  IF found = 0
        THEN [aggIn  |-> IF target # 1
                         THEN [In EXCEPT
                                 ![target] = @ \o SubSeq(tempCols, tempBefore + 1,
                                                         Len(tempCols)),
                                 ![1] = SubSeq(tempCols, 1, tempBefore)]
                         ELSE [In EXCEPT ![1] = tempCols],
              aggOut |-> [Out EXCEPT ![target] =
                                Append(@, ScopeColumn(newId, NilExpr))],
              aggs   |-> [Ag EXCEPT ![target] = Append(@, info)],
              next   |-> newId + 1,
              target |-> target, found |-> FALSE, col |-> newId, info |-> info]
        ELSE [aggIn  |-> [In EXCEPT ![1] = undoAggArgs(tempCols, tempBefore)],
              aggOut |-> Out,
              aggs   |-> Ag,
              next   |-> newId,
              target |-> target, found |-> TRUE, col |-> found,
              info   |-> [info0 EXCEPT !.col = found]]

(***************************************************************************)
(* optbuilder: buildGroupingColumns.                                       *)
(***************************************************************************)
ParenExpr(e) == Node("Paren", 0, <<e>>)

NumVal(k) == Node("NumVal", k, <<>>)

Tuple(es) == Node("Tuple", 0, es)

\* The SELECT list an ordinal GROUP BY refers to.
Selects == <<Col1, ConstructPlus(Col1, BoolCol2)>>

\* GROUP BY items: a column in parentheses, an ordinal naming that column in
\* the select list, and a tuple of the column and a computed expression.
GroupByExprs == {ParenExpr(Col1), NumVal(1),
                 Tuple(<<Col1, ConstructPlus(Col1, BoolCol2)>>)}

GroupByLists == SeqsUpTo(GroupByExprs, MaxGroupBy)

RECURSIVE StripParens(_)
\* "((a))" to "a".
StripParens(e) == IF e.op = "Paren" THEN StripParens(e.kids[1]) ELSE e

\* The select-list position an integer literal names, or 0.
colIndex(numSelects, e) ==
    IF e.op = "NumVal" /\ e.val \in 1..numSelects THEN e.val ELSE 0

RECURSIVE flattenTuples(_)
flattenTuples(exprs) ==
    IF exprs = <<>> THEN <<>>
    ELSE LET e == Head(exprs)
         IN  (IF e.op = "Tuple" THEN flattenTuples(e.kids) ELSE <<e>>)
               \o flattenTuples(Tail(exprs))

RECURSIVE symbolicExprStr(_)
\* The canonical string of a typed expression, columns in symbolic notation.
symbolicExprStr(e) ==
    CASE e.op = "Variable" -> "@" \o ToString(e.val)
      [] e.op = "Const"    -> ToString(e.val)
      [] e.op = "NumVal"   -> ToString(e.val)
      [] e.op = "Plus"     -> symbolicExprStr(e.kids[1]) \o " + "
                                \o symbolicExprStr(e.kids[2])
      [] e.op = "Paren"    -> "(" \o symbolicExprStr(e.kids[1]) \o ")"
      [] OTHER             -> e.op

groupingSeen_Never(strs, exprStr) == FALSE

\* "If a grouping column has already been added, don't add it again."
groupingSeen(strs, exprStr) == exprStr \in DOMAIN strs

RECURSIVE buildGroupingExprs(_, _)
\* The loop of buildGrouping over the expanded expressions of one GROUP BY
\* item; st holds the aggInScope columns, groupStrs and the next column id.
buildGroupingExprs(exprs, st) ==
    IF exprs = <<>> THEN st
    ELSE LET e       == Head(exprs)
             exprStr == symbolicExprStr(e)
             col     == IF e.op = "Variable"
                        THEN ScopeColumn(e.val, NilExpr)
                        ELSE ScopeColumn(st.next, e)
         IN  IF groupingSeen(st.strs, exprStr)
             THEN buildGroupingExprs(Tail(exprs), st)
             ELSE buildGroupingExprs(Tail(exprs),
                    [cols |-> Append(st.cols, col),
                     strs |-> (exprStr :> col.id) @@ st.strs,
                     next |-> IF e.op = "Variable" THEN st.next ELSE st.next + 1])

buildGrouping(groupBy, selects, st) ==
    LET stripped == StripParens(groupBy)
        col      == colIndex(Len(selects), stripped)
        e        == IF col # 0 THEN selects[col] ELSE stripped
    IN  buildGroupingExprs(flattenTuples(<<e>>), st)

RECURSIVE buildGroupingList(_, _, _)
buildGroupingList(groupBy, selects, st) ==
    IF groupBy = <<>> THEN st
    ELSE buildGroupingList(Tail(groupBy), selects,
                           buildGrouping(Head(groupBy), selects, st))

getGroupingCols(cols, groupingsLen) ==
    SubSeq(cols, Len(cols) - groupingsLen + 1, Len(cols))

getAggregateArgCols(cols, groupingsLen) ==
    SubSeq(cols, 1, Len(cols) - groupingsLen)

getAggregateCols(cols, scopeAggs) == SubSeq(cols, 1, Len(scopeAggs))

\* buildGroupingColumns: a fresh groupStrs, the grouping list built into the
\* aggInScope, and the last len(groupStrs) columns copied to the aggOutScope.
buildGroupingColumns(groupBy, selects, inCols, outCols, nxt) ==
    LET st           == buildGroupingList(groupBy, selects,
                          [cols |-> inCols, strs |-> <<>>, next |-> nxt])
        groupingsLen == Cardinality(DOMAIN st.strs)
        groupingCols == getGroupingCols(st.cols, groupingsLen)
    IN  [aggIn |-> st.cols, aggOut |-> outCols \o groupingCols,
         strs |-> st.strs, next |-> st.next, groupingCols |-> groupingCols]

(***************************************************************************)
(* optbuilder: buildAggregation, constructAggregate and constructGroupBy.  *)
(***************************************************************************)
isOrderingSensitive(agg) ==
    agg.def \in {"array_agg", "concat_agg", "string_agg", "json_agg", "jsonb_agg"}

isCommutative_IgnoresOrderBy(agg) == ~isOrderingSensitive(agg)

isCommutative(agg) == ~agg.orderBy \/ ~isOrderingSensitive(agg)

hasNonCommutativeAggregates(scopeAggs) ==
    \E i \in 1..Len(scopeAggs) : ~isCommutative(scopeAggs[i])

\* memo.CanExtractConstDatum on the scalars the model builds.
CanExtractConstDatum(e) == e.op \in {"Const", "True", "False", "Null"}

OneArgAggregates ==
    {"array_agg", "avg", "bool_and", "bool_or", "concat_agg", "count", "max",
     "min", "sum_int", "sum", "sqrdiff", "variance", "stddev", "xor_agg",
     "json_agg", "jsonb_agg"}

\* The outcome of a construction: the expression, or the way the call ended.
Built(e) == [err |-> "none", expr |-> e]

Failed(how) == [err |-> how, expr |-> NilExpr]

constructAggregate_AnyName(name, args) ==
    CASE name = "count_rows" -> Built(Node(name, 0, <<>>))
      [] name = "string_agg" ->
             IF Len(args) < 2 THEN Failed("index out of range")
             ELSE IF ~CanExtractConstDatum(args[2])
             THEN Failed("unimplemented: string_agg")
             ELSE Built(Node(name, 0, <<args[1], args[2]>>))
      [] OTHER ->
             IF Len(args) < 1 THEN Failed("index out of range")
             ELSE Built(Node(name, 0, <<args[1]>>))

constructAggregate_AnySeparator(name, args) ==
    CASE name = "count_rows" -> Built(Node(name, 0, <<>>))
      [] name \in OneArgAggregates ->
             IF Len(args) < 1 THEN Failed("index out of range")
             ELSE Built(Node(name, 0, <<args[1]>>))
      [] name = "string_agg" ->
             IF Len(args) < 2 THEN Failed("index out of range")
             ELSE Built(Node(name, 0, <<args[1], args[2]>>))
      [] OTHER -> Failed("assertion: unhandled aggregate")

\* constructAggregate: the dispatch on the function name.  Indexing args past
\* its end is a runtime panic.
constructAggregate(name, args) ==
    CASE name = "count_rows" -> Built(Node(name, 0, <<>>))
      [] name \in OneArgAggregates ->
             IF Len(args) < 1 THEN Failed("index out of range")
             ELSE Built(Node(name, 0, <<args[1]>>))
      [] name = "string_agg" ->
             IF Len(args) < 2 THEN Failed("index out of range")
             ELSE IF ~CanExtractConstDatum(args[2]) THEN Failed("unimplemented: string_agg")
             ELSE Built(Node(name, 0, <<args[1], args[2]>>))
      [] OTHER -> Failed("assertion: unhandled aggregate")

NoArgWindowFns == {"rank", "row_number", "dense_rank", "percent_rank", "cume_dist"}

OneArgWindowFns == {"ntile", "first_value", "last_value"}

ThreeArgWindowFns == {"lag", "lead"}

\* constructWindowFn: the dispatch on the window function name; a name that
\* is not a window function goes to constructAggregate.  string_agg is built
\* here whatever its second argument is.
constructWindowFn(name, args) ==
    CASE name \in NoArgWindowFns -> Built(Node(name, 0, <<>>))
      [] name \in OneArgWindowFns ->
             IF Len(args) < 1 THEN Failed("index out of range")
             ELSE Built(Node(name, 0, <<args[1]>>))
      [] name \in ThreeArgWindowFns ->
             IF Len(args) < 3 THEN Failed("index out of range")
             ELSE Built(Node(name, 0, <<args[1], args[2], args[3]>>))
      [] name = "nth_value" ->
             IF Len(args) < 2 THEN Failed("index out of range")
             ELSE Built(Node(name, 0, <<args[1], args[2]>>))
      [] name = "string_agg" ->
             IF Len(args) < 2 THEN Failed("index out of range")
             ELSE Built(Node(name, 0, <<args[1], args[2]>>))
      [] OTHER -> constructAggregate(name, args)

wrapDistinct_Never(agg, arg) == arg

\* "Wrap the argument with AggDistinct."
wrapDistinct(agg, arg) == IF agg.distinct THEN ConstructAggDistinct(arg) ELSE arg

\* One iteration of the loop of buildAggregation over aggInfos: the argument
\* list of one aggregate, wired from the front of argCols.
wireAggregate(agg, argCols) ==
    IF Len(agg.args) > 0
    THEN IF argCols = <<>> THEN [err |-> "index out of range", args |-> <<>>,
                                 argCols |-> argCols]
         ELSE
         LET colID     == argCols[1].id
             rest1     == Tail(argCols)
             arg0      == wrapDistinct(agg, ConstructVariable(colID))
             constArgs == Tail(agg.args)
         IN  IF Len(constArgs) > Len(rest1)
             THEN [err |-> "index out of range", args |-> <<>>, argCols |-> rest1]
             ELSE
             LET rest2 == SubSeq(rest1, Len(constArgs) + 1, Len(rest1))
             IN  IF agg.filter # NilExpr
                 THEN IF rest2 = <<>>
                      THEN [err |-> "index out of range", args |-> <<>>,
                            argCols |-> rest2]
                      ELSE [err |-> "none",
                            args |-> <<ConstructAggFilter(arg0,
                                         ConstructVariable(rest2[1].id))>>
                                       \o constArgs,
                            argCols |-> Tail(rest2)]
                 ELSE [err |-> "none", args |-> <<arg0>> \o constArgs,
                       argCols |-> rest2]
    ELSE [err |-> "none", args |-> <<>>, argCols |-> argCols]

RECURSIVE wireAggregates(_, _, _, _)
\* The loop over aggInfos: aggCols[i].scalar for each aggregate, until one
\* construction fails.
wireAggregates(aggInfos, i, argCols, scalars) ==
    IF i > Len(aggInfos)
    THEN [err |-> "none", scalars |-> scalars, argCols |-> argCols]
    ELSE LET wired == wireAggregate(aggInfos[i], argCols)
             made  == IF wired.err # "none" THEN Failed(wired.err)
                      ELSE constructAggregate(aggInfos[i].def, wired.args)
         IN  IF made.err # "none"
             THEN [err |-> made.err, scalars |-> scalars, argCols |-> wired.argCols]
             ELSE wireAggregates(aggInfos, i + 1, wired.argCols,
                                 Append(scalars, made.expr))

groupingOperator_AlwaysGroupBy(groupingColSet) == "GroupBy"

\* The operator constructGroupBy emits for a grouping column set.
groupingOperator(groupingColSet) ==
    IF groupingColSet = {} THEN "ScalarGroupBy" ELSE "GroupBy"

\* constructGroupBy: the aggregations deduplicated by column, then the
\* operator chosen by the grouping column set.
constructGroupBy(input, groupingColSet, aggCols, ordering) ==
    LET firsts == {i \in 1..Len(aggCols) :
                     \A j \in 1..(i - 1) : aggCols[j].id # aggCols[i].id}
    IN  IF \E i \in firsts : aggCols[i].scalar = NilExpr
        THEN [err |-> "assertion: variable as aggregation", op |-> "none",
              input |-> input, aggs |-> {}, groupingCols |-> groupingColSet,
              ordering |-> ordering]
        ELSE [err |-> "none", op |-> groupingOperator(groupingColSet),
              input |-> input,
              aggs |-> {<<aggCols[i].id, aggCols[i].scalar>> : i \in firsts},
              groupingCols |-> groupingColSet, ordering |-> ordering]

\* No grouping operator was constructed.
NoGroupBy ==
    [err |-> "none", op |-> "none", input |-> [op |-> "none", cols |-> {}],
     aggs |-> {}, groupingCols |-> {}, ordering |-> "none"]

\* buildAggregation for scope 1: the window path when an aggregate is not
\* commutative, otherwise the aggregates wired to their argument columns, the
\* pre-projection, the grouping operator and the HAVING filter.
buildAggregation(groupingCols, having, inCols, outCols, scopeAggs) ==
    LET groupingColSet == ColIds(groupingCols)
        argCols        == getAggregateArgCols(inCols, Len(groupingCols))
        wired          == wireAggregates(scopeAggs, 1, argCols, <<>>)
        aggCols        == [i \in 1..Len(scopeAggs) |->
                             IF i <= Len(wired.scalars)
                             THEN ScopeColumn(outCols[i].id, wired.scalars[i])
                             ELSE outCols[i]]
        newOut         == aggCols \o SubSeq(outCols, Len(scopeAggs) + 1, Len(outCols))
        haveSensitive  == \E i \in 1..Len(scopeAggs) : isOrderingSensitive(scopeAggs[i])
        ordering       == IF haveSensitive THEN "from" ELSE "none"
        project        == [op |-> "Project", cols |-> ColIds(inCols)]
        grouping       == constructGroupBy(project, groupingColSet, aggCols, ordering)
    IN  IF hasNonCommutativeAggregates(scopeAggs)
        THEN [path |-> "window", err |-> "none", aggOut |-> outCols,
              groupBy |-> NoGroupBy, having |-> FALSE, leftover |-> argCols]
        ELSE IF wired.err # "none"
        THEN [path |-> "groupby", err |-> wired.err, aggOut |-> newOut,
              groupBy |-> NoGroupBy, having |-> FALSE, leftover |-> wired.argCols]
        ELSE [path |-> "groupby", err |-> grouping.err, aggOut |-> newOut,
              groupBy |-> grouping,
              having |-> (having # NilExpr /\ grouping.err = "none"),
              leftover |-> wired.argCols]

(***************************************************************************)
(* optbuilder: the build pass over one SELECT.  The aggregate calls of the *)
(* SELECT list are analyzed first, then the grouping columns are built,    *)
(* then the aggregation.                                                   *)
(***************************************************************************)
IdleNorm == [phase |-> "idle"]

IdleCost == [phase |-> "idle"]

IdleColSets == [phase |-> "idle"]

IdleBuilder ==
    /\ pc = [at |-> "idle", calls |-> 0]
    /\ aggIn = [s \in ScopeIds |-> <<>>]
    /\ aggOut = [s \in ScopeIds |-> <<>>]
    /\ aggs = [s \in ScopeIds |-> <<>>]
    /\ groupStrs = <<>>
    /\ nextCol = FirstSynthesizedCol
    /\ last = [op |-> "none"]

InitAgg ==
    /\ pc = [at |-> "analyze", calls |-> 0]
    /\ aggIn = [s \in ScopeIds |-> <<>>]
    /\ aggOut = [s \in ScopeIds |-> <<>>]
    /\ aggs = [s \in ScopeIds |-> <<>>]
    /\ groupStrs = <<>>
    /\ nextCol = FirstSynthesizedCol
    /\ last = [op |-> "none"]
    /\ norm = IdleNorm
    /\ costing = IdleCost
    /\ colsets = IdleColSets

Snapshot == [aggIn |-> aggIn, aggOut |-> aggOut, aggs |-> aggs, nextCol |-> nextCol]

BuildAggregateFunction(f) ==
    /\ pc.at = "analyze"
    /\ pc.calls < MaxAggCalls
    /\ LET r == buildAggregateFunction(f, aggIn, aggOut, aggs, nextCol)
       IN  /\ aggIn' = r.aggIn
           /\ aggOut' = r.aggOut
           /\ aggs' = r.aggs
           /\ nextCol' = r.next
           /\ last' = [op |-> "buildAggregateFunction", f |-> f,
                       found |-> r.found, target |-> r.target, col |-> r.col,
                       info |-> r.info, before |-> Snapshot]
    /\ pc' = [pc EXCEPT !.calls = @ + 1]
    /\ UNCHANGED <<groupStrs, norm, costing, colsets>>

BuildGroupingColumns(groupBy) ==
    /\ pc.at = "analyze"
    /\ LET r == buildGroupingColumns(groupBy, Selects, aggIn[1], aggOut[1], nextCol)
       IN  /\ aggIn' = [aggIn EXCEPT ![1] = r.aggIn]
           /\ aggOut' = [aggOut EXCEPT ![1] = r.aggOut]
           /\ groupStrs' = r.strs
           /\ nextCol' = r.next
           /\ last' = [op |-> "buildGroupingColumns", groupBy |-> groupBy,
                       groupingCols |-> r.groupingCols, before |-> Snapshot]
    /\ pc' = [pc EXCEPT !.at = "grouped"]
    /\ UNCHANGED <<aggs, norm, costing, colsets>>

HavingExprs == {NilExpr, BoolCol2}

BuildAggregation(having) ==
    /\ pc.at = "grouped"
    /\ LET r == buildAggregation(last.groupingCols, having, aggIn[1], aggOut[1], aggs[1])
       IN  /\ aggOut' = [aggOut EXCEPT ![1] = r.aggOut]
           /\ last' = [op |-> "buildAggregation", groupingCols |-> last.groupingCols,
                       path |-> r.path, err |-> r.err, groupBy |-> r.groupBy,
                       having |-> r.having, leftover |-> r.leftover]
    /\ pc' = [pc EXCEPT !.at = "built"]
    /\ UNCHANGED <<aggIn, aggs, groupStrs, nextCol, norm, costing, colsets>>

NextAgg ==
    \/ \E f \in FuncExprs : BuildAggregateFunction(f)
    \/ \E groupBy \in GroupByLists : BuildGroupingColumns(groupBy)
    \/ \E having \in HavingExprs : BuildAggregation(having)

SpecAgg == InitAgg /\ [][NextAgg]_vars

(***************************************************************************)
(* optbuilder: properties.                                                 *)
(***************************************************************************)
NoDuplicateAggregates ==
    \A s \in ScopeIds : \A i, j \in 1..Len(aggs[s]) :
        i < j => ~SameAggregate(aggs[s][i], aggs[s][j])

\* The column built for one argument stands for that argument: a passed
\* through column the argument names, or a synthesized column holding it.
ColumnOfArg(col, arg) ==
    \/ col.scalar = NilExpr /\ arg = ConstructVariable(col.id)
    \/ col.scalar # NilExpr /\ arg = col.scalar

\* C1: after any sequence of buildAggregateFunction calls no scope's aggregate
\* list holds two entries equal on (definition, arguments, distinct, filter).
\* A call whose aggregate equals an existing entry returns that entry's output
\* column, leaves the aggregate lists and output columns unchanged and cuts the
\* temporary scope back to its length before the call.  A call with no equal
\* entry appends exactly one entry and one new output column to the owning
\* scope and keeps one argument column per argument and filter there.
C1_AggregateDedup ==
    /\ NoDuplicateAggregates
    /\ last.op = "buildAggregateFunction" =>
         LET b       == last.before
             t       == last.target
             hits    == {i \in 1..Len(b.aggs[t]) : SameAggregate(b.aggs[t][i], last.info)}
             built   == last.info.args \o
                          (IF last.f.filter # NilExpr THEN <<last.info.filter>> ELSE <<>>)
             kept    == SubSeq(aggIn[t], Len(b.aggIn[t]) + 1, Len(aggIn[t]))
         IN  /\ last.found <=> hits # {}
             /\ hits # {} =>
                  /\ \E i \in hits : /\ last.col = b.aggOut[t][i].id
                                     /\ last.col = b.aggs[t][i].col
                  /\ aggs = b.aggs
                  /\ aggOut = b.aggOut
                  /\ Len(aggIn[1]) = Len(b.aggIn[1])
                  /\ aggIn = b.aggIn
             /\ hits = {} =>
                  /\ aggs = [b.aggs EXCEPT ![t] = Append(@, last.info)]
                  /\ aggOut = [b.aggOut EXCEPT ![t] =
                                 Append(@, ScopeColumn(last.col, NilExpr))]
                  /\ last.col >= b.nextCol
                  /\ last.col \notin ColIds(b.aggOut[1]) \cup ColIds(b.aggOut[2])
                  /\ Len(kept) = Len(built)
                  /\ \A i \in 1..Len(built) : ColumnOfArg(kept[i], built[i])
                  /\ \A s \in ScopeIds \ {t} : aggIn[s] = b.aggIn[s]

\* C1 witness: a repeated aggregate with a computed argument and a filter was
\* found again, after the temporary scope already held columns.
C1_Witness ==
    /\ last.op = "buildAggregateFunction"
    /\ last.found
    /\ last.f.filter # NilExpr
    /\ \E i \in 1..Len(last.f.exprs) : last.f.exprs[i].op = "Plus"
    /\ Len(last.before.aggIn[1]) > 0

\* The GROUP BY list as buildGrouping sees it: parentheses stripped, ordinals
\* replaced by the select expression, tuples flattened.
RECURSIVE ExpandedGroupBy(_)
ExpandedGroupBy(groupBy) ==
    IF groupBy = <<>> THEN <<>>
    ELSE LET stripped == StripParens(Head(groupBy))
             col      == colIndex(Len(Selects), stripped)
         IN  flattenTuples(<<IF col # 0 THEN Selects[col] ELSE stripped>>)
               \o ExpandedGroupBy(Tail(groupBy))

RemoveAt(q, p) == SubSeq(q, 1, p - 1) \o SubSeq(q, p + 1, Len(q))

StrsOf(groupBy) ==
    {symbolicExprStr(ExpandedGroupBy(groupBy)[i]) :
        i \in 1..Len(ExpandedGroupBy(groupBy))}

\* C2: buildGroupingColumns returns exactly one grouping column per distinct
\* canonical expression string, in order of first occurrence; the number of
\* returned columns equals the number of entries of the string-to-column map;
\* a GROUP BY item whose strings were all recorded already adds no column
\* and changes no mapping, so the list without it gives the same columns.
C2_GroupingDedup ==
    last.op = "buildGroupingColumns" =>
        LET exps   == ExpandedGroupBy(last.groupBy)
            str(i) == symbolicExprStr(exps[i])
            firsts == {i \in 1..Len(exps) : \A j \in 1..(i - 1) : str(j) # str(i)}
            rank(i) == Cardinality({j \in firsts : j <= i})
            cols   == last.groupingCols
            b      == last.before
        IN  /\ Len(cols) = Cardinality(firsts)
            /\ Len(cols) = Cardinality(DOMAIN groupStrs)
            /\ DOMAIN groupStrs = {str(i) : i \in 1..Len(exps)}
            /\ \A i \in firsts : /\ groupStrs[str(i)] = cols[rank(i)].id
                                 /\ ColumnOfArg(cols[rank(i)], exps[i])
            /\ \A i, j \in 1..Len(cols) : i # j => cols[i].id # cols[j].id
            /\ aggIn[1] = b.aggIn[1] \o cols
            /\ aggOut[1] = b.aggOut[1] \o cols
            /\ \A p \in 1..Len(last.groupBy) :
                 StrsOf(<<last.groupBy[p]>>) \subseteq StrsOf(SubSeq(last.groupBy, 1, p - 1))
                 => LET r == buildGroupingColumns(RemoveAt(last.groupBy, p), Selects,
                                                  b.aggIn[1], b.aggOut[1], b.nextCol)
                    IN  r.groupingCols = cols /\ r.strs = groupStrs

\* C2 witness: a GROUP BY list that repeats an expression was built after
\* aggregate argument columns were already in the aggInScope.
C2_Witness ==
    /\ last.op = "buildGroupingColumns"
    /\ Len(ExpandedGroupBy(last.groupBy)) > Cardinality(DOMAIN groupStrs)
    /\ Cardinality(DOMAIN groupStrs) = 2
    /\ Len(last.before.aggIn[1]) > 0

\* C3: constructGroupBy emits ScalarGroupBy if and only if the grouping column
\* set is empty, and GroupBy otherwise; zero GROUP BY columns are always built
\* as the scalar variant.
C3_ScalarGroupByIffNoGroupingCols ==
    (last.op = "buildAggregation" /\ last.path = "groupby" /\ last.err = "none") =>
        /\ last.groupBy.groupingCols = ColIds(last.groupingCols)
        /\ last.groupBy.op \in {"ScalarGroupBy", "GroupBy"}
        /\ last.groupBy.op = "ScalarGroupBy" <=> last.groupBy.groupingCols = {}
        /\ last.groupBy.op = "ScalarGroupBy" <=> DOMAIN groupStrs = {}

\* C3 witness: a SELECT with aggregates and no GROUP BY was built.
C3_Witness ==
    /\ last.op = "buildAggregation"
    /\ last.path = "groupby"
    /\ last.err = "none"
    /\ last.groupBy.op = "ScalarGroupBy"
    /\ Len(aggs[1]) > 0

WrappedInDistinct(e) ==
    \/ e.op = "AggDistinct"
    \/ e.op = "AggFilter" /\ e.kids[1].op = "AggDistinct"

\* C4: in buildAggregation, for every discovered aggregate whatever its number
\* of arguments, a DISTINCT aggregate has its first argument wrapped in the
\* distinct marker and an aggregate with a FILTER is constructed with the
\* filter marker, whose condition is the variable of its own filter column.
C4_FilterAndDistinctWired ==
    (last.op = "buildAggregation" /\ last.path = "groupby" /\ last.err = "none") =>
        \A i \in 1..Len(aggs[1]) :
            LET agg    == aggs[1][i]
                scalar == aggOut[1][i].scalar
            IN  /\ (agg.distinct /\ Len(agg.args) > 0) =>
                      /\ Len(scalar.kids) > 0
                      /\ WrappedInDistinct(scalar.kids[1])
                /\ agg.filter # NilExpr =>
                      /\ Len(scalar.kids) > 0
                      /\ scalar.kids[1].op = "AggFilter"
                      /\ scalar.kids[1].kids[2] = agg.filter

(***************************************************************************)
(* norm: expressions, relational inputs and the bounded input sets.        *)
(* Columns 1 and 2 come from the scanned table, 3 and 4 are synthesized by *)
(* the input operator, 5 and up by the outer Project, 9 is the column of a *)
(* subquery's own relation.                                                *)
(***************************************************************************)
MaxDepth == 2

MaxItems == 2

ConstructEq(l, r) == Node("Eq", 0, <<l, r>>)

NullExpr == Node("Null", 0, <<>>)

TrueExpr == Node("True", 0, <<>>)

FalseExpr == Node("False", 0, <<>>)

\* A relational expression nested in a scalar: a Select over a relation that
\* produces column col, filtered by cond.
RelSelect(col, cond) == Node("Select", col, <<cond>>)

ConstructSubquery(rel) == Node("Subquery", 0, <<rel>>)

IsRelExpr(e) == e.op = "Select"

\* The columns a nested relational expression takes from outside.
OuterCols(rel) == VarRefs(rel.kids[1]) \ {rel.val}

UncorrelatedSubquery ==
    ConstructSubquery(RelSelect(9, ConstructEq(ConstructVariable(9), ConstructConst(5))))

CorrelatedSubquery ==
    ConstructSubquery(RelSelect(9, ConstructEq(ConstructVariable(9), ConstructVariable(3))))

ScalarLeaves == {ConstructVariable(1), ConstructVariable(3), ConstructVariable(4),
                 ConstructConst(5), UncorrelatedSubquery, CorrelatedSubquery}

RECURSIVE ScalarExprs(_)
\* Scalar expressions nested at most d deep.
ScalarExprs(d) ==
    IF d = 0 THEN ScalarLeaves
    ELSE LET inner == ScalarExprs(d - 1)
         IN  inner \cup {ConstructEq(ConstructVariable(3), e) : e \in inner}
                   \cup {ConstructPlus(e, ConstructVariable(4)) : e \in inner}

\* Lists of scalars: a first one of any depth, then up to MaxItems - 1 more
\* references to column 3.
ScalarLists ==
    {<<e>> \o rest : e \in ScalarExprs(MaxDepth),
                     rest \in SeqsUpTo({ConstructVariable(3)}, MaxItems - 1)}

ProjectionsItem(c, e) == [col |-> c, element |-> e]

FiltersItem(e) == [condition |-> e]

\* The outer projections over a list of scalars: columns 5, 6, ...
OuterProjections(exprs) == [i \in 1..Len(exprs) |-> ProjectionsItem(4 + i, exprs[i])]

Filters(exprs) == [i \in 1..Len(exprs) |-> FiltersItem(exprs[i])]

\* Relational operators, all of one shape.
ProjectExpr(in, projections, passthrough) ==
    [op |-> "Project", input |-> in, projections |-> projections,
     passthrough |-> passthrough, cols |-> <<>>, rows |-> <<>>]

ValuesExpr(cols, rows) ==
    [op |-> "Values", input |-> "none", projections |-> <<>>, passthrough |-> {},
     cols |-> cols, rows |-> rows]

ScanExpr ==
    [op |-> "Scan", input |-> "none", projections |-> <<>>, passthrough |-> {},
     cols |-> <<1, 2>>, rows |-> <<>>]

InnerElements3 == {ConstructConst(5),
                   ConstructPlus(ConstructVariable(1), ConstructConst(1))}

InnerElements4 == {TrueExpr, ConstructPlus(ConstructVariable(1), ConstructVariable(2))}

InnerProjects ==
    {ProjectExpr("scan", <<ProjectionsItem(3, e3)>>, pt) :
        e3 \in InnerElements3, pt \in {{1, 2}}}
    \cup {ProjectExpr("scan", <<ProjectionsItem(4, e4), ProjectionsItem(3, e3)>>, {1}) :
        e3 \in InnerElements3, e4 \in InnerElements4}

ValuesRows == {<<ConstructConst(5), NullExpr>>,
               <<ConstructVariable(1), ConstructConst(7)>>,
               <<FalseExpr, ConstructVariable(2)>>}

InnerValues ==
    {ValuesExpr(<<3, 4>>, rows) :
        rows \in {<<>>} \cup {<<r>> : r \in ValuesRows}
                   \cup {<<r, r>> : r \in ValuesRows}}

InnerInputs == InnerProjects \cup InnerValues \cup {ScanExpr}

SynthesizedCols == {3, 4}

(***************************************************************************)
(* norm: constant inlining.                                                *)
(***************************************************************************)
IsConstValueOp(e) == e.op \in {"Const", "True", "False", "Null"}

FindInlinableConstants_AnyRowCount(input) ==
    IF input.op = "Project"
    THEN {input.projections[i].col : i \in
            {j \in 1..Len(input.projections) :
                IsConstValueOp(input.projections[j].element)}}
    ELSE IF input.op = "Values" /\ Len(input.rows) >= 1
    THEN {input.cols[i] : i \in
            {j \in 1..Len(input.rows[1]) : IsConstValueOp(input.rows[1][j])}}
    ELSE {}

FindInlinableConstants(input) ==
    IF input.op = "Project"
    THEN {input.projections[i].col : i \in
            {j \in 1..Len(input.projections) :
                IsConstValueOp(input.projections[j].element)}}
    ELSE IF input.op = "Values" /\ Len(input.rows) = 1
    THEN {input.cols[i] : i \in
            {j \in 1..Len(input.rows[1]) : IsConstValueOp(input.rows[1][j])}}
    ELSE {}

\* An assertion failure unwinding through the rule.
Panic(msg) == Node("panic", 0, <<>>)

IsPanic(e) == e.op = "panic"

\* The least index of a non-empty set of indexes.
First(I) == CHOOSE i \in I : \A j \in I : i <= j

extractColumn_FirstItem(input, col) ==
    IF input.op = "Project" /\ Len(input.projections) > 0
    THEN input.projections[1].element
    ELSE IF input.op = "Values" /\ Len(input.rows) = 1
    THEN input.rows[1][1]
    ELSE Panic("could not find column to extract")

extractColumn_NullWhenMissing(input, col) ==
    IF input.op = "Project"
    THEN LET hits == {i \in 1..Len(input.projections) : input.projections[i].col = col}
         IN  IF hits # {} THEN input.projections[First(hits)].element ELSE NullExpr
    ELSE IF input.op = "Values" /\ Len(input.rows) = 1
    THEN LET hits == {i \in 1..Len(input.rows[1]) : input.cols[i] = col}
         IN  IF hits # {} THEN input.rows[1][First(hits)] ELSE NullExpr
    ELSE NullExpr

extractColumn(input, col) ==
    IF input.op = "Project"
    THEN LET hits == {i \in 1..Len(input.projections) : input.projections[i].col = col}
         IN  IF hits # {} THEN input.projections[First(hits)].element
             ELSE Panic("could not find column to extract")
    ELSE IF input.op = "Values" /\ Len(input.rows) = 1
    THEN LET hits == {i \in 1..Len(input.rows[1]) : input.cols[i] = col}
         IN  IF hits # {} THEN input.rows[1][First(hits)]
             ELSE Panic("could not find column to extract")
    ELSE Panic("could not find column to extract")

\* Factory.Replace: the same operator rebuilt over the replaced children; a
\* panic raised while replacing a child unwinds through it.
Replace(e, newKids) ==
    IF \E i \in 1..Len(newKids) : IsPanic(newKids[i])
    THEN Panic("unwound")
    ELSE Node(e.op, e.val, newKids)

RECURSIVE inlineConstants(_, _, _)
inlineConstants(e, input, constCols) ==
    IF e.op = "Variable"
    THEN IF e.val \in constCols THEN extractColumn(input, e.val) ELSE e
    ELSE Replace(e, [i \in 1..Len(e.kids) |->
                        inlineConstants(e.kids[i], input, constCols)])

\* The result of a rule function: the list built, or the panic.
Inlined(items) == [err |-> FALSE, items |-> items]

Panicked == [err |-> TRUE, items |-> <<>>]

InlineProjectionConstants(projections, input, constCols) ==
    LET newProjections == [i \in 1..Len(projections) |->
            ProjectionsItem(projections[i].col,
                            inlineConstants(projections[i].element, input, constCols))]
    IN  IF \E i \in 1..Len(projections) : IsPanic(newProjections[i].element)
        THEN Panicked ELSE Inlined(newProjections)

InlineFilterConstants(filters, input, constCols) ==
    LET newFilters == [i \in 1..Len(filters) |->
            FiltersItem(inlineConstants(filters[i].condition, input, constCols))]
    IN  IF \E i \in 1..Len(filters) : IsPanic(newFilters[i].condition)
        THEN Panicked ELSE Inlined(newFilters)

(***************************************************************************)
(* norm: duplicate references.                                             *)
(***************************************************************************)
RECURSIVE HasCorrelatedSubquery(_)
\* The scalar property: some subquery below has outer columns.
HasCorrelatedSubquery(e) ==
    \/ IsRelExpr(e) /\ OuterCols(e) # {}
    \/ \E i \in 1..Len(e.kids) : HasCorrelatedSubquery(e.kids[i])

Refs(dup, refs) == [dup |-> dup, refs |-> refs]

RECURSIVE findDupRefs(_, _, _)
RECURSIVE findDupRefsChildren(_, _, _, _)
\* The closure of HasDuplicateRefs: whether the subtree holds a duplicate, and
\* the refs set it leaves behind.
findDupRefs(e, refs, targetCols) ==
    IF e.op = "Variable"
    THEN IF e.val \notin targetCols THEN Refs(FALSE, refs)
         ELSE IF e.val \in refs THEN Refs(TRUE, refs)
         ELSE Refs(FALSE, refs \cup {e.val})
    ELSE IF IsRelExpr(e) THEN Refs(FALSE, refs)
    ELSE findDupRefsChildren(e, 1, refs, targetCols)

findDupRefsChildren(e, i, refs, targetCols) ==
    IF i > Len(e.kids) THEN Refs(FALSE, refs)
    ELSE LET r == findDupRefs(e.kids[i], refs, targetCols)
         IN  IF r.dup THEN r
             ELSE findDupRefsChildren(e, i + 1, r.refs, targetCols)

initialRefs_Empty(passthrough, targetCols) == {}

initialRefs(passthrough, targetCols) == passthrough \cap targetCols

RECURSIVE dupRefsFrom_NoSubqueryTest(_, _, _, _)
dupRefsFrom_NoSubqueryTest(projections, i, refs, targetCols) ==
    IF i > Len(projections) THEN FALSE
    ELSE LET r == findDupRefs(projections[i].element, refs, targetCols)
         IN  IF r.dup THEN TRUE
             ELSE dupRefsFrom_NoSubqueryTest(projections, i + 1, r.refs, targetCols)

RECURSIVE dupRefsFrom(_, _, _, _)
\* The loop of HasDuplicateRefs from projection i on.
dupRefsFrom(projections, i, refs, targetCols) ==
    IF i > Len(projections) THEN FALSE
    ELSE IF HasCorrelatedSubquery(projections[i].element) THEN TRUE
    ELSE LET r == findDupRefs(projections[i].element, refs, targetCols)
         IN  IF r.dup THEN TRUE
             ELSE dupRefsFrom(projections, i + 1, r.refs, targetCols)

HasDuplicateRefs(projections, passthrough, targetCols) ==
    dupRefsFrom(projections, 1, initialRefs(passthrough, targetCols), targetCols)

(***************************************************************************)
(* norm: projection inlining.                                              *)
(***************************************************************************)
RECURSIVE inlineProjections(_, _)
inlineProjections(e, projections) ==
    IF e.op = "Variable"
    THEN LET hits == {i \in 1..Len(projections) : projections[i].col = e.val}
         IN  IF hits # {} THEN projections[First(hits)].element ELSE e
    ELSE IF IsRelExpr(e)
    THEN IF OuterCols(e) # {}
         THEN Panic("cannot inline references within correlated subqueries")
         ELSE e
    ELSE Replace(e, [i \in 1..Len(e.kids) |-> inlineProjections(e.kids[i], projections)])

InlineSelectProject(filters, projections) ==
    LET newFilters == [i \in 1..Len(filters) |->
            FiltersItem(inlineProjections(filters[i].condition, projections))]
    IN  IF \E i \in 1..Len(filters) : IsPanic(newFilters[i].condition)
        THEN Panicked ELSE Inlined(newFilters)

addPassthroughRefs_Nothing(innerProjections, i, newProjections, newPassthrough) ==
    [projections |-> newProjections, passthrough |-> newPassthrough]

RECURSIVE addPassthroughRefs(_, _, _, _)
\* The loop over the inner projections from item i on: an inner synthesized
\* column the outer Project passes through becomes a projection.
addPassthroughRefs(innerProjections, i, newProjections, newPassthrough) ==
    IF i > Len(innerProjections)
    THEN [projections |-> newProjections, passthrough |-> newPassthrough]
    ELSE IF innerProjections[i].col \in newPassthrough
    THEN addPassthroughRefs(innerProjections, i + 1,
                            Append(newProjections, innerProjections[i]),
                            newPassthrough \ {innerProjections[i].col})
    ELSE addPassthroughRefs(innerProjections, i + 1, newProjections, newPassthrough)

InlineProjectProject(input, projections, passthrough) ==
    LET innerProjections == input.projections
        inlined == [i \in 1..Len(projections) |->
            ProjectionsItem(projections[i].col,
                            inlineProjections(projections[i].element, innerProjections))]
        added == IF passthrough # {}
                 THEN addPassthroughRefs(innerProjections, 1, inlined, passthrough)
                 ELSE [projections |-> inlined, passthrough |-> passthrough]
    IN  IF \E i \in 1..Len(projections) : IsPanic(inlined[i].element)
        THEN [err |-> TRUE, project |-> ScanExpr]
        ELSE [err |-> FALSE,
              project |-> ProjectExpr(input.input, added.projections, added.passthrough)]

(***************************************************************************)
(* norm: one rule function applied to one bounded input.                   *)
(***************************************************************************)
\* The columns an operator produces.
OutputCols(rel) ==
    IF rel.op = "Project"
    THEN {rel.projections[i].col : i \in 1..Len(rel.projections)} \cup rel.passthrough
    ELSE Range(rel.cols)

NormInput(fn, input, exprs, cols, passthrough) ==
    [phase |-> "ready", fn |-> fn, input |-> input, exprs |-> exprs,
     cols |-> cols, passthrough |-> passthrough]

ConstantInputs ==
    {NormInput("constants", input, exprs, constCols, {}) :
        input \in InnerInputs, exprs \in ScalarLists,
        constCols \in SUBSET SynthesizedCols}

RefsInputs ==
    {NormInput("refs", ScanExpr, exprs, targetCols, passthrough) :
        exprs \in ScalarLists, targetCols \in SUBSET SynthesizedCols,
        passthrough \in SUBSET {1, 3, 4}}

ProjectInputs ==
    UNION {{NormInput("project", input, exprs, {}, passthrough) :
              exprs \in ScalarLists, passthrough \in SUBSET OutputCols(input)} :
           input \in InnerProjects}

InitNorm ==
    /\ IdleBuilder
    /\ norm \in ConstantInputs \cup RefsInputs \cup ProjectInputs
    /\ costing = IdleCost
    /\ colsets = IdleColSets

NormDone(fn, result) ==
    [phase |-> "done", fn |-> fn, input |-> norm.input, exprs |-> norm.exprs,
     cols |-> norm.cols, passthrough |-> norm.passthrough, result |-> result]

IdleOthersNorm == UNCHANGED <<pc, aggIn, aggOut, aggs, groupStrs, nextCol, last, costing, colsets>>

ApplyFindInlinableConstants ==
    /\ norm.phase = "ready" /\ norm.fn = "constants"
    /\ norm' = NormDone("FindInlinableConstants", FindInlinableConstants(norm.input))
    /\ IdleOthersNorm

ApplyInlineFilterConstants ==
    /\ norm.phase = "ready" /\ norm.fn = "constants"
    /\ norm' = NormDone("InlineFilterConstants",
                        InlineFilterConstants(Filters(norm.exprs), norm.input, norm.cols))
    /\ IdleOthersNorm

ApplyInlineProjectionConstants ==
    /\ norm.phase = "ready" /\ norm.fn = "constants"
    /\ norm' = NormDone("InlineProjectionConstants",
                        InlineProjectionConstants(OuterProjections(norm.exprs),
                                                  norm.input, norm.cols))
    /\ IdleOthersNorm

ApplyHasDuplicateRefs ==
    /\ norm.phase = "ready" /\ norm.fn = "refs"
    /\ norm' = NormDone("HasDuplicateRefs",
                        HasDuplicateRefs(OuterProjections(norm.exprs),
                                         norm.passthrough, norm.cols))
    /\ IdleOthersNorm

ApplyInlineSelectProject ==
    /\ norm.phase = "ready" /\ norm.fn = "project"
    /\ norm' = NormDone("InlineSelectProject",
                        InlineSelectProject(Filters(norm.exprs), norm.input.projections))
    /\ IdleOthersNorm

ApplyInlineProjectProject ==
    /\ norm.phase = "ready" /\ norm.fn = "project"
    /\ norm' = NormDone("InlineProjectProject",
                        InlineProjectProject(norm.input, OuterProjections(norm.exprs),
                                             norm.passthrough))
    /\ IdleOthersNorm

NextNorm ==
    \/ ApplyFindInlinableConstants
    \/ ApplyInlineFilterConstants
    \/ ApplyInlineProjectionConstants
    \/ ApplyHasDuplicateRefs
    \/ ApplyInlineSelectProject
    \/ ApplyInlineProjectProject

SpecNorm == InitNorm /\ [][NextNorm]_vars

(***************************************************************************)
(* norm: properties.                                                       *)
(***************************************************************************)
NormApplied(fn) == norm.phase = "done" /\ norm.fn = fn

\* The columns whose defining expression the input exposes.
DefinedCols(input) ==
    IF input.op = "Project"
    THEN {input.projections[i].col : i \in 1..Len(input.projections)}
    ELSE IF input.op = "Values" /\ Len(input.rows) = 1 THEN Range(input.cols)
    ELSE {}

DefiningExpr(input, col) ==
    IF input.op = "Project"
    THEN (CHOOSE item \in Range(input.projections) : item.col = col).element
    ELSE input.rows[1][CHOOSE i \in 1..Len(input.cols) : input.cols[i] = col]

RECURSIVE ConstantsInlined(_, _, _, _)
\* res is e with each reference to a column of constCols replaced by the
\* column's defining expression and with every other node as it was.
ConstantsInlined(e, res, input, constCols) ==
    IF e.op = "Variable" /\ e.val \in constCols
    THEN res = DefiningExpr(input, e.val)
    ELSE /\ res.op = e.op
         /\ res.val = e.val
         /\ Len(res.kids) = Len(e.kids)
         /\ \A i \in 1..Len(e.kids) :
                ConstantsInlined(e.kids[i], res.kids[i], input, constCols)

\* C5: when every column of constCols is defined by the input Project or
\* single-row Values, InlineFilterConstants and InlineProjectionConstants return
\* as many items as they were given, in the same order, each projection with its
\* output column; in each expression every reference to a column of constCols,
\* at any depth, is replaced by the column's defining expression, and every
\* other node, variables of other columns included, is unchanged.
C5_ConstantsInlinedEverywhere ==
    /\ (NormApplied("InlineFilterConstants") /\ norm.cols \subseteq DefinedCols(norm.input))
        => /\ ~norm.result.err
           /\ Len(norm.result.items) = Len(norm.exprs)
           /\ \A i \in 1..Len(norm.exprs) :
                ConstantsInlined(norm.exprs[i], norm.result.items[i].condition,
                                 norm.input, norm.cols)
    /\ (NormApplied("InlineProjectionConstants") /\ norm.cols \subseteq DefinedCols(norm.input))
        => /\ ~norm.result.err
           /\ Len(norm.result.items) = Len(norm.exprs)
           /\ \A i \in 1..Len(norm.exprs) :
                /\ norm.result.items[i].col = OuterProjections(norm.exprs)[i].col
                /\ ConstantsInlined(norm.exprs[i], norm.result.items[i].element,
                                    norm.input, norm.cols)

\* `a = 5` over Project{a: 5} has become `5 = 5`, and a reference nested
\* below another operator has been replaced too.
C5_Witness ==
    /\ NormApplied("InlineFilterConstants")
    /\ norm.input.op = "Project"
    /\ norm.cols = {3}
    /\ norm.exprs[1] = ConstructPlus(ConstructEq(ConstructVariable(3), ConstructConst(5)),
                                     ConstructVariable(4))
    /\ ~norm.result.err
    /\ norm.result.items[1].condition =
         ConstructPlus(ConstructEq(ConstructConst(5), ConstructConst(5)),
                       ConstructVariable(4))

RECURSIVE Occurrences(_, _)
RECURSIVE OccurrencesIn(_, _)
\* The number of Variable nodes of column c in e.
Occurrences(e, c) ==
    IF e.op = "Variable" THEN (IF e.val = c THEN 1 ELSE 0)
    ELSE OccurrencesIn(e.kids, c)

\* The number of Variable nodes of column c in a list of expressions.
OccurrencesIn(es, c) ==
    IF es = <<>> THEN 0
    ELSE Occurrences(Head(es), c) + OccurrencesIn(Tail(es), c)

TotalRefs(exprs, passthrough, c) ==
    (IF c \in passthrough THEN 1 ELSE 0) + OccurrencesIn(exprs, c)

\* C6: HasDuplicateRefs is true exactly when a projection contains a correlated
\* subquery or some target column is referenced more than once, counting one
\* for its presence in the passthrough set and one for each Variable of it in
\* the projections; columns outside targetCols never count.
C6_DuplicateRefsExact ==
    NormApplied("HasDuplicateRefs")
        => (norm.result <=>
              \/ \E i \in 1..Len(norm.exprs) : HasCorrelatedSubquery(norm.exprs[i])
              \/ \E c \in norm.cols : TotalRefs(norm.exprs, norm.passthrough, c) > 1)

\* True with no correlated subquery: column 3 is passed through and referenced
\* once, while the non-target column 1 is also passed through and referenced.
C6_Witness ==
    /\ NormApplied("HasDuplicateRefs")
    /\ norm.result
    /\ \A i \in 1..Len(norm.exprs) : ~HasCorrelatedSubquery(norm.exprs[i])
    /\ norm.cols = {3}
    /\ {1, 3} \subseteq norm.passthrough
    /\ OccurrencesIn(norm.exprs, 3) = 1
    /\ OccurrencesIn(norm.exprs, 1) = 1

\* C7: the Project that InlineProjectProject builds sits on the inner Project's
\* input and outputs exactly the outer projection columns and the outer
\* passthrough columns; an outer passthrough column the inner Project
\* synthesizes is a projection with the inner defining expression and is out of
\* the passthrough set, where no inner synthesized column is left.
C7_OutputColumnsPreserved ==
    (NormApplied("InlineProjectProject") /\ ~norm.result.err)
        => LET fused == norm.result.project
               innerCols == DefinedCols(norm.input)
               outer == OuterProjections(norm.exprs)
           IN  /\ fused.op = "Project"
               /\ fused.input = norm.input.input
               /\ OutputCols(fused) =
                    {outer[i].col : i \in 1..Len(outer)} \cup norm.passthrough
               /\ \A c \in norm.passthrough \cap innerCols :
                    /\ c \notin fused.passthrough
                    /\ \E i \in 1..Len(fused.projections) :
                         fused.projections[i] =
                           ProjectionsItem(c, DefiningExpr(norm.input, c))
               /\ fused.passthrough \cap innerCols = {}

\* The outer Project passed through inner column 3 and table column 1: 3 is now
\* a projection, 1 is still passed through.
C7_Witness ==
    /\ NormApplied("InlineProjectProject")
    /\ ~norm.result.err
    /\ norm.passthrough = {1, 3}
    /\ norm.result.project.passthrough = {1}
    /\ Len(norm.result.project.projections) = Len(norm.exprs) + 1

(***************************************************************************)
(* xform: cost arithmetic.  A cost is a float64; the model keeps it in     *)
(* fixed point, CostUnit units to 1.0, fine enough for every product below *)
(* to be exact: hundredths for cpuCostFactor, hundredths again for the     *)
(* sort key probabilities, thirty-sixths for locality scores and grouping  *)
(* fractions, quarters for the perturbation.  PosInf is float64 +Inf, the  *)
(* value of memo.MaxCost; a NaN (0 * Inf) fails the same Less test as +Inf *)
(* and is not told apart from it.                                          *)
(***************************************************************************)
ScoreUnit == 6 * 6

CostUnit == 100 * 100 * ScoreUnit

cpuCostFactor == CostUnit \div 100

seqIOCostFactor == CostUnit

randIOCostFactor == 4 * CostUnit

lookupJoinRetrieveRowCost == 2 * seqIOCostFactor

latencyCostFactor == cpuCostFactor

\* 1e100 in the source: far above the cost of any plan that breaks no hint.
hugeCost == 1000 * CostUnit

PosInf == 2 * hugeCost

MaxCost == PosInf

FAdd(a, b) == IF a = PosInf \/ b = PosInf THEN PosInf ELSE a + b

FMul(a, b) == IF a = PosInf \/ b = PosInf THEN PosInf ELSE a * b

FDiv(a, n) == IF a = PosInf THEN PosInf ELSE a \div n

Less(a, b) == a < b

RECURSIVE Log2(_)
\* math.Log2 of a row count above 1; the row counts drawn are powers of two.
Log2(n) == IF n = PosInf THEN PosInf ELSE IF n <= 1 THEN 0 ELSE 1 + Log2(n \div 2)

(***************************************************************************)
(* xform: locality match score, in ScoreUnit-ths.                          *)
(***************************************************************************)
Tier(k, v) == [key |-> k, value |-> v]

Constraint(req, k, v) == [required |-> req, key |-> k, value |-> v]

Zone(replicaConstraints, leasePreferences) ==
    [replicaConstraints |-> replicaConstraints, leasePreferences |-> leasePreferences]

\* 0 / 0.
NaN == 0 - 1

RECURSIVE matchTierFrom(_, _, _, _)
\* The loop of matchTier from constraint j on.
matchTierFrom(tier, set, j, foundNoMatch) ==
    IF j > Len(set) THEN (IF foundNoMatch THEN 0 - 1 ELSE 0)
    ELSE IF set[j].key # tier.key THEN matchTierFrom(tier, set, j + 1, foundNoMatch)
    ELSE IF set[j].value = tier.value THEN (IF set[j].required THEN 1 ELSE 0 - 1)
    ELSE matchTierFrom(tier, set, j + 1, foundNoMatch \/ set[j].required)

matchTier_NeverFails(tier, set) ==
    IF \E j \in 1..Len(set) :
         set[j].required /\ set[j].key = tier.key /\ set[j].value = tier.value
    THEN 1 ELSE 0

matchTier(tier, set) == matchTierFrom(tier, set, 1, FALSE)

RECURSIVE matchConstraintsFrom(_, _, _, _)
\* The loop of matchConstraints from tier i on.
matchConstraintsFrom(tiers, set, i, matchCount) ==
    IF i > Len(tiers) THEN matchCount
    ELSE LET r == matchTier(tiers[i], set)
         IN  IF r = 1 THEN matchConstraintsFrom(tiers, set, i + 1, i)
             ELSE IF r = 0 - 1 THEN matchCount
             ELSE matchConstraintsFrom(tiers, set, i + 1, matchCount)

matchConstraints(tiers, set) == matchConstraintsFrom(tiers, set, 1, 0)

\* The least of a non-empty set of numbers.
Min(S) == CHOOSE x \in S : \A y \in S : x <= y

ScoreOf_OverOneMoreTier(m, t) == (m * ScoreUnit) \div (t + 1)

\* float64(m) / float64(t).
ScoreOf(m, t) == IF t = 0 THEN NaN ELSE (m * ScoreUnit) \div t

localityMatchScore(zone, tiers) ==
    IF Len(zone.replicaConstraints) = 0 /\ Len(zone.leasePreferences) = 0 THEN 0
    ELSE LET t == Len(tiers)
             constraintScore ==
                 IF Len(zone.replicaConstraints) # 0
                 THEN ScoreOf(Min({matchConstraints(tiers, zone.replicaConstraints[i]) :
                                     i \in 1..Len(zone.replicaConstraints)}), t)
                 ELSE 0
             leaseScore == ScoreOf(matchConstraints(tiers, zone.leasePreferences[1]), t)
         IN  IF Len(zone.leasePreferences) = 0 THEN constraintScore
             ELSE IF constraintScore = NaN \/ leaseScore = NaN THEN NaN
             ELSE (constraintScore * 2 + leaseScore) \div 3

(***************************************************************************)
(* xform: the per-operator cost formulas.  A candidate carries what the    *)
(* coster reads from it: its operator, the row-count estimates of itself   *)
(* and of its inputs, its flags, and the counts and the zone the formulas  *)
(* look up in the metadata and the required properties.                    *)
(***************************************************************************)
HashJoinOps == {"InnerJoin", "LeftJoin", "RightJoin", "FullJoin", "SemiJoin", "AntiJoin",
                "InnerJoinApply", "LeftJoinApply", "RightJoinApply", "FullJoinApply",
                "SemiJoinApply", "AntiJoinApply"}

SetOps == {"Union", "Intersect", "Except", "UnionAll", "IntersectAll", "ExceptAll"}

GroupingOps == {"GroupBy", "ScalarGroupBy", "DistinctOn"}

RECURSIVE rowSortCostFrom(_, _, _, _)
\* The loop of rowSortCost: c is cpuCostFactor * eqProb^i, eqProb being 0.1.
rowSortCostFrom(i, c, numKeyCols, sum) ==
    IF i < numKeyCols THEN rowSortCostFrom(i + 1, c \div 10, numKeyCols, sum + c)
    ELSE sum

rowSortCost(numKeyCols) == rowSortCostFrom(0, cpuCostFactor, numKeyCols, cpuCostFactor)

rowScanCost(zone, numCols, numScannedCols, locality) ==
    LET adjustment == ScoreUnit - localityMatchScore(zone, locality)
        costFactor == IF Len(locality) # 0
                      THEN cpuCostFactor + (latencyCostFactor * adjustment) \div ScoreUnit
                      ELSE cpuCostFactor
    IN  (numCols + numScannedCols) * costFactor

computeSortCost(sort) ==
    LET cost == FMul(sort.rowCount, rowSortCost(sort.keyCols))
    IN  IF sort.rowCount > 1 THEN FMul(cost, FAdd(1, Log2(sort.rowCount))) ELSE cost

computeScanCost(scan, locality) ==
    IF scan.forceIndex /\ scan.flagsIndex # scan.index THEN hugeCost
    ELSE LET base == rowScanCost(scan.zone, scan.indexCols, scan.scanCols, locality)
             perRowCost == IF scan.reverse /\ scan.rowCount > 1
                           THEN FAdd(base, FMul(Log2(scan.rowCount), cpuCostFactor))
                           ELSE base
             preferConstrainedScanCost == IF scan.unconstrained THEN cpuCostFactor ELSE 0
         IN  FAdd(FMul(scan.rowCount, FAdd(seqIOCostFactor, perRowCost)),
                  preferConstrainedScanCost)

computeVirtualScanCost(scan) == FMul(scan.rowCount, cpuCostFactor)

computeSelectCost(sel) == FMul(sel.leftRows, cpuCostFactor)

computeProjectCost(prj) ==
    FAdd(FMul(FMul(prj.rowCount, prj.items), cpuCostFactor),
         FMul(prj.rowCount, cpuCostFactor))

computeValuesCost(values) == FMul(values.rowCount, cpuCostFactor)

computeHashJoinCost_Symmetric(join) ==
    IF join.disallowHashJoin THEN hugeCost
    ELSE FAdd(FDiv(FMul(FAdd(FMul(150, join.leftRows), FMul(150, join.rightRows)),
                        cpuCostFactor), 100),
              FMul(join.rowCount, cpuCostFactor))

computeHashJoinCost_LeftHeavier(join) ==
    IF join.disallowHashJoin THEN hugeCost
    ELSE FAdd(FDiv(FMul(FAdd(FMul(175, join.leftRows), FMul(125, join.rightRows)),
                        cpuCostFactor), 100),
              FMul(join.rowCount, cpuCostFactor))

computeHashJoinCost(join) ==
    IF join.disallowHashJoin THEN hugeCost
    ELSE FAdd(FDiv(FMul(FAdd(FMul(125, join.leftRows), FMul(175, join.rightRows)),
                        cpuCostFactor), 100),
              FMul(join.rowCount, cpuCostFactor))

computeMergeJoinCost(join) ==
    FAdd(FMul(FAdd(join.leftRows, join.rightRows), cpuCostFactor),
         FMul(join.rowCount, cpuCostFactor))

computeIndexJoinCost(join, locality) ==
    FMul(join.leftRows,
         cpuCostFactor + randIOCostFactor
           + rowScanCost(join.zone, join.indexCols, join.scanCols, locality))

computeLookupJoinCost(join, locality) ==
    LET perRowCost == lookupJoinRetrieveRowCost
                        + rowScanCost(join.zone, join.indexCols, join.scanCols, locality)
                        + cpuCostFactor * join.items
    IN  FAdd(FMul(join.leftRows, randIOCostFactor), FMul(join.rowCount, perRowCost))

computeZigzagJoinCost(join, locality) ==
    LET scanCost == rowScanCost(join.zone, join.indexCols, join.scanCols, locality)
                      + rowScanCost(join.zone, join.indexCols, join.items, locality)
    IN  FMul(join.rowCount, 2 * (cpuCostFactor + seqIOCostFactor) + scanCost)

computeSetCost_Subtracts(set) ==
    IF set.op # "UnionAll" /\ set.rowCount # PosInf
          /\ set.leftRows # PosInf /\ set.rightRows # PosInf
    THEN set.rowCount * cpuCostFactor - (set.leftRows + set.rightRows) * cpuCostFactor
    ELSE FMul(set.rowCount, cpuCostFactor)

computeSetCost(set) ==
    LET cost == FMul(set.rowCount, cpuCostFactor)
    IN  IF set.op # "UnionAll"
        THEN FAdd(cost, FMul(FAdd(set.leftRows, set.rightRows), cpuCostFactor))
        ELSE cost

computeGroupingCost_FullHashTable(grouping) ==
    FAdd(FAdd(FMul(grouping.rowCount, cpuCostFactor),
              FMul(FMul(grouping.leftRows, grouping.items + grouping.groupingCols),
                   cpuCostFactor)),
         IF grouping.groupingCols > 0 THEN FMul(grouping.leftRows, cpuCostFactor) ELSE 0)

computeGroupingCost(grouping) ==
    LET cost == FAdd(FMul(grouping.rowCount, cpuCostFactor),
                     FMul(FMul(grouping.leftRows, grouping.items + grouping.groupingCols),
                          cpuCostFactor))
        hashCost == FMul(grouping.leftRows, cpuCostFactor)
    IN  IF grouping.groupingCols > 0
        THEN FAdd(cost, FDiv(FMul(hashCost, grouping.groupingCols - grouping.orderedCols),
                             grouping.groupingCols))
        ELSE cost

computeLimitCost_Free(limit) == 0

computeLimitCost(limit) == FMul(limit.rowCount, cpuCostFactor)

computeOffsetCost(offset) == FMul(offset.rowCount, cpuCostFactor)

computeOrdinalityCost(ord) == FMul(ord.rowCount, cpuCostFactor)

computeProjectSetCost(projectSet) == FMul(projectSet.rowCount, cpuCostFactor)

\* The switch of ComputeCost.
operatorCost(candidate, locality) ==
    CASE candidate.op = "Sort" -> computeSortCost(candidate)
      [] candidate.op = "Scan" -> computeScanCost(candidate, locality)
      [] candidate.op = "VirtualScan" -> computeVirtualScanCost(candidate)
      [] candidate.op = "Select" -> computeSelectCost(candidate)
      [] candidate.op = "Project" -> computeProjectCost(candidate)
      [] candidate.op = "Values" -> computeValuesCost(candidate)
      [] candidate.op \in HashJoinOps -> computeHashJoinCost(candidate)
      [] candidate.op = "MergeJoin" -> computeMergeJoinCost(candidate)
      [] candidate.op = "IndexJoin" -> computeIndexJoinCost(candidate, locality)
      [] candidate.op = "LookupJoin" -> computeLookupJoinCost(candidate, locality)
      [] candidate.op = "ZigzagJoin" -> computeZigzagJoinCost(candidate, locality)
      [] candidate.op \in SetOps -> computeSetCost(candidate)
      [] candidate.op \in GroupingOps -> computeGroupingCost(candidate)
      [] candidate.op = "Limit" -> computeLimitCost(candidate)
      [] candidate.op = "Offset" -> computeOffsetCost(candidate)
      [] candidate.op = "Ordinality" -> computeOrdinalityCost(candidate)
      [] candidate.op = "ProjectSet" -> computeProjectSetCost(candidate)
      [] candidate.op = "Explain" -> 0
      [] OTHER -> 0

exceedsMaxCost_AtHugeCost(c) == ~Less(c, hugeCost)

\* The assertion after the setup cost is added.
exceedsMaxCost(c) == ~Less(c, MaxCost)

mayPerturb_Always(c) == TRUE

\* "Don't perturb the cost if we are forcing an index."
mayPerturb(c) == c < hugeCost

perturb_NoFloor(c, perturbation, multiplier) ==
    c + (c * (perturbation * multiplier)) \div 4

\* The floor tests the cost before the perturbation instead of after it.
perturb_FloorsOldCost(c, perturbation, multiplier) ==
    LET perturbed == c + (c * (perturbation * multiplier)) \div 4
    IN  IF c < 0 THEN 0 ELSE perturbed

\* cost += cost * (perturbation * multiplier), floored at zero; perturbation and
\* multiplier are kept in halves.
perturb(c, perturbation, multiplier) ==
    LET perturbed == c + (c * (perturbation * multiplier)) \div 4
    IN  IF perturbed < 0 THEN 0 ELSE perturbed

Costed(raw, c, rand) == [panic |-> FALSE, raw |-> raw, cost |-> c, rand |-> rand]

AssertionFailed(raw) == [panic |-> TRUE, raw |-> raw, cost |-> 0, rand |-> FALSE]

\* multiplier is what rand.Float64 would give; rand tells whether it was drawn.
ComputeCost(candidate, locality, perturbation, multiplier) ==
    LET raw == FAdd(operatorCost(candidate, locality), cpuCostFactor)
    IN  IF exceedsMaxCost(raw) THEN AssertionFailed(raw)
        ELSE IF perturbation # 0 /\ mayPerturb(raw)
        THEN Costed(raw, perturb(raw, perturbation, multiplier), TRUE)
        ELSE Costed(raw, raw, FALSE)

(***************************************************************************)
(* xform: one candidate costed by one coster.                              *)
(***************************************************************************)
MaxLog2Rows == 2

MaxTiers == 2

RECURSIVE Pow2(_)
Pow2(k) == IF k = 0 THEN 1 ELSE 2 * Pow2(k - 1)

\* Row-count estimates: none, powers of two, and a float64 that overflowed.
RowCounts == {0, PosInf} \cup {Pow2(k) : k \in 0..MaxLog2Rows}

AllTiers == <<Tier("region", "us"), Tier("dc", "east"), Tier("rack", "1")>>

Localities == {SubSeq(AllTiers, 1, t) : t \in 0..MaxTiers}

NoZone == Zone(<<>>, <<>>)

Zones ==
    {NoZone,
     Zone(<<<<Constraint(TRUE, "region", "us")>>>>, <<>>),
     Zone(<<<<Constraint(TRUE, "region", "us"), Constraint(TRUE, "dc", "east")>>>>,
          <<<<Constraint(TRUE, "region", "us"), Constraint(FALSE, "dc", "east")>>>>),
     Zone(<<<<Constraint(TRUE, "dc", "east")>>, <<Constraint(TRUE, "region", "eu")>>>>,
          <<<<Constraint(TRUE, "region", "us")>>>>)}

\* Perturbation fractions 0, 0.5 and 1.5, in halves.
Perturbations == {0, 1, 3}

\* Values of 2*rand.Float64() - 1 in [-1.0, 1.0), in halves.
Multipliers == {0 - 2, 0 - 1, 0, 1}

Candidate(op) ==
    [op |-> op, rowCount |-> 1, leftRows |-> 1, rightRows |-> 1,
     forceIndex |-> FALSE, flagsIndex |-> 0, index |-> 0, reverse |-> FALSE,
     unconstrained |-> FALSE, disallowHashJoin |-> FALSE, keyCols |-> 0,
     indexCols |-> 2, scanCols |-> 1, items |-> 0, groupingCols |-> 0,
     orderedCols |-> 0, zone |-> NoZone]

ScanCandidates ==
    {[Candidate("Scan") EXCEPT !.rowCount = r, !.forceIndex = f[1], !.index = f[2],
                               !.reverse = rev, !.unconstrained = unc, !.zone = z] :
        r \in RowCounts, f \in {<<FALSE, 0>>, <<TRUE, 0>>, <<TRUE, 1>>},
        rev \in BOOLEAN, unc \in BOOLEAN, z \in Zones}

OwnRowsCandidates ==
    {[Candidate(op) EXCEPT !.rowCount = r] :
        op \in {"VirtualScan", "Values", "Limit", "Offset", "Ordinality", "ProjectSet",
                "Explain"},
        r \in RowCounts}
    \cup {[Candidate("Sort") EXCEPT !.rowCount = r, !.keyCols = k] :
            r \in RowCounts, k \in 0..2}
    \cup {[Candidate("Project") EXCEPT !.rowCount = r, !.items = n] :
            r \in RowCounts, n \in {0, 2}}
    \cup {[Candidate("Select") EXCEPT !.leftRows = r] : r \in RowCounts}

TwoInputCandidates ==
    {[Candidate(op) EXCEPT !.rowCount = r, !.leftRows = l, !.rightRows = rr,
                           !.disallowHashJoin = d] :
        op \in {"InnerJoin", "SemiJoinApply"}, d \in BOOLEAN,
        r \in RowCounts, l \in RowCounts, rr \in RowCounts}
    \cup {[Candidate(op) EXCEPT !.rowCount = r, !.leftRows = l, !.rightRows = rr] :
        op \in {"MergeJoin", "Union", "UnionAll"},
        r \in RowCounts, l \in RowCounts, rr \in RowCounts}

IndexedJoinCandidates ==
    {[Candidate("IndexJoin") EXCEPT !.leftRows = l, !.zone = z] :
        l \in RowCounts, z \in Zones}
    \cup {[Candidate("LookupJoin") EXCEPT !.rowCount = r, !.leftRows = l, !.items = n,
                                          !.zone = z] :
        r \in RowCounts, l \in RowCounts, n \in {0, 1}, z \in Zones}
    \cup {[Candidate("ZigzagJoin") EXCEPT !.rowCount = r, !.zone = z] :
        r \in RowCounts, z \in Zones}

GroupingShapes ==
    {<<"ScalarGroupBy", 0, 0>>, <<"DistinctOn", 1, 0>>, <<"GroupBy", 1, 1>>,
     <<"GroupBy", 2, 0>>, <<"GroupBy", 2, 1>>, <<"GroupBy", 2, 2>>}

GroupingCandidates ==
    {[Candidate(g[1]) EXCEPT !.rowCount = r, !.leftRows = l, !.items = n,
                             !.groupingCols = g[2], !.orderedCols = g[3]] :
        g \in GroupingShapes, r \in RowCounts, l \in RowCounts, n \in {0, 1}}

Candidates ==
    ScanCandidates \cup OwnRowsCandidates \cup TwoInputCandidates
        \cup IndexedJoinCandidates \cup GroupingCandidates

\* The locality matters to the candidates that scan an index.
ReadsZone(candidate) == candidate.op \in {"Scan", "IndexJoin", "LookupJoin", "ZigzagJoin"}

InitCost ==
    /\ IdleBuilder
    /\ norm = IdleNorm
    /\ colsets = IdleColSets
    /\ \E candidate \in Candidates, perturbation \in Perturbations :
         \E locality \in (IF ReadsZone(candidate) THEN Localities ELSE {<<>>}) :
           costing = [phase |-> "ready", candidate |-> candidate,
                      locality |-> locality, perturbation |-> perturbation]

ApplyComputeCost(multiplier) ==
    /\ costing.phase = "ready"
    /\ LET r == ComputeCost(costing.candidate, costing.locality, costing.perturbation,
                            multiplier)
       IN  costing' = [phase |-> "done", candidate |-> costing.candidate,
                       locality |-> costing.locality,
                       perturbation |-> costing.perturbation,
                       multiplier |-> IF r.rand THEN multiplier ELSE 0,
                       result |-> r]
    /\ UNCHANGED <<pc, aggIn, aggOut, aggs, groupStrs, nextCol, last, norm, colsets>>

NextCost == \E multiplier \in Multipliers : ApplyComputeCost(multiplier)

SpecCost == InitCost /\ [][NextCost]_vars

(***************************************************************************)
(* xform: properties.                                                      *)
(***************************************************************************)
Costing(op) == costing.phase = "done" /\ costing.candidate.op = op

RowCountFields == {"rowCount", "leftRows", "rightRows"}

\* The same candidate with one of its row-count estimates set to r.
WithRows(candidate, field, r) == [candidate EXCEPT ![field] = r]

\* C8: with perturbation off, raising one row-count estimate of a candidate (its
\* own or one of its inputs') and nothing else never lowers the cost returned.
C8_CostMonotoneInRowCounts ==
    (costing.phase = "done" /\ costing.perturbation = 0 /\ ~costing.result.panic)
        => \A field \in RowCountFields :
             \A r \in {x \in RowCounts : x > costing.candidate[field]} :
                LET larger == ComputeCost(WithRows(costing.candidate, field, r),
                                          costing.locality, 0, 0)
                IN  ~larger.panic => larger.cost >= costing.result.cost

\* A sort of two rows on two key columns has been costed without perturbation,
\* and the same sort of four rows costs strictly more.
C8_Witness ==
    /\ Costing("Sort")
    /\ costing.perturbation = 0
    /\ costing.candidate.rowCount = 2
    /\ costing.candidate.keyCols = 2
    /\ ~costing.result.panic
    /\ ComputeCost(WithRows(costing.candidate, "rowCount", 4), costing.locality, 0, 0).cost
         > costing.result.cost

ForcedIndexMismatch(candidate) ==
    candidate.op = "Scan" /\ candidate.forceIndex /\ candidate.flagsIndex # candidate.index

\* C9: a Scan whose flags force an index other than the one it scans is costed
\* at hugeCost or more, whatever the row count, the locality, the zone and the
\* perturbation, so it costs at least as much as any candidate below hugeCost.
C9_ForcedIndexMismatchIsHuge ==
    (costing.phase = "done" /\ ForcedIndexMismatch(costing.candidate))
        => /\ ~costing.result.panic
           /\ costing.result.cost >= hugeCost

\* Such a scan has been costed by a coster with two locality tiers, a zone with
\* constraints and the largest perturbation.
C9_Witness ==
    /\ Costing("Scan")
    /\ ForcedIndexMismatch(costing.candidate)
    /\ costing.perturbation = 3
    /\ Len(costing.locality) = 2
    /\ costing.candidate.zone # NoZone
    /\ costing.candidate.rowCount = 4
    /\ costing.result.cost >= hugeCost

\* C10 (as stated): ComputeCost never returns a cost at or above hugeCost.
C10_NeverReturnsHugeCost ==
    (costing.phase = "done" /\ ~costing.result.panic)
        => costing.result.cost < hugeCost

\* C10 (amended): ComputeCost fails its assertion exactly when the cost after
\* the operator formula and the setup cost is not below memo.MaxCost, a test
\* made before the perturbation; a cost at or above hugeCost and below MaxCost
\* is returned, and returned unperturbed.
C10_AssertsOnlyAtMaxCost ==
    costing.phase = "done"
        => /\ costing.result.raw =
                FAdd(operatorCost(costing.candidate, costing.locality), cpuCostFactor)
           /\ costing.result.panic <=> ~(costing.result.raw < MaxCost)
           /\ (~costing.result.panic /\ costing.result.raw >= hugeCost)
                => costing.result.cost = costing.result.raw /\ ~costing.result.rand

\* A hash join that a hint disallows has been costed under perturbation and its
\* cost, hugeCost and the setup cost, has been returned.
C10_Witness ==
    /\ costing.phase = "done"
    /\ costing.candidate.op \in HashJoinOps
    /\ costing.candidate.disallowHashJoin
    /\ costing.perturbation # 0
    /\ ~costing.result.panic
    /\ costing.result.cost = hugeCost + cpuCostFactor

(***************************************************************************)
(* xform: localityMatchScore applied to one zone and one locality.         *)
(***************************************************************************)
MaxReplicaGroups == 2

Required(k, v) == Constraint(TRUE, k, v)

Prohibited(k, v) == Constraint(FALSE, k, v)

ConstraintSets ==
    {<<Required("region", "us")>>,
     <<Required("region", "us"), Required("dc", "east"), Required("rack", "1")>>,
     <<Required("dc", "east")>>,
     <<Required("region", "eu")>>,
     <<Required("region", "us"), Prohibited("dc", "east")>>,
     <<Prohibited("region", "us"), Required("dc", "east")>>,
     <<Required("region", "eu"), Required("region", "us")>>,
     <<Prohibited("region", "us"), Required("region", "us")>>}

\* No lease preference, one, or one followed by a second.
LeasePreferenceLists ==
    {<<>>} \cup {<<set>> : set \in ConstraintSets}
           \cup {<<set, <<Required("region", "eu")>>>> : set \in ConstraintSets}

ScoredZones ==
    {Zone(groups, prefs) : groups \in SeqsUpTo(ConstraintSets, MaxReplicaGroups),
                           prefs \in LeasePreferenceLists}

InitScore ==
    /\ IdleBuilder
    /\ norm = IdleNorm
    /\ colsets = IdleColSets
    /\ \E zone \in ScoredZones, locality \in Localities :
         costing = [phase |-> "zone", zone |-> zone, locality |-> locality]

ApplyLocalityMatchScore ==
    /\ costing.phase = "zone"
    /\ costing' = [phase |-> "scored", zone |-> costing.zone,
                   locality |-> costing.locality,
                   score |-> localityMatchScore(costing.zone, costing.locality)]
    /\ UNCHANGED <<pc, aggIn, aggOut, aggs, groupStrs, nextCol, last, norm, colsets>>

NextScore == ApplyLocalityMatchScore

SpecScore == InitScore /\ [][NextScore]_vars

(***************************************************************************)
(* xform: properties of the locality match score.                          *)
(***************************************************************************)
Scored == costing.phase = "scored"

EmptyZone(zone) == Len(zone.replicaConstraints) = 0 /\ Len(zone.leasePreferences) = 0

TierMatched(tier, set) ==
    /\ \E j \in 1..Len(set) :
         set[j].required /\ set[j].key = tier.key /\ set[j].value = tier.value
    /\ ~\E j \in 1..Len(set) :
         ~set[j].required /\ set[j].key = tier.key /\ set[j].value = tier.value

AllTiersMatched(tiers, set) == \A i \in 1..Len(tiers) : TierMatched(tiers[i], set)

AllGroupsMatched(zone, tiers) ==
    /\ Len(zone.replicaConstraints) >= 1
    /\ \A g \in 1..Len(zone.replicaConstraints) :
         AllTiersMatched(tiers, zone.replicaConstraints[g])

TierVerdict(tier, set) ==
    LET same == {j \in 1..Len(set) :
                    set[j].key = tier.key /\ set[j].value = tier.value}
    IN  IF same # {} THEN (IF set[Min(same)].required THEN 1 ELSE 0 - 1)
        ELSE IF \E j \in 1..Len(set) : set[j].key = tier.key /\ set[j].required
        THEN 0 - 1
        ELSE 0

\* m: the length of the longest tier prefix that ends in a tier with verdict 1
\* and holds no tier with verdict -1.
MatchedPrefix(tiers, set) ==
    LET ends == {m \in 1..Len(tiers) :
                    /\ TierVerdict(tiers[m], set) = 1
                    /\ \A i \in 1..m : TierVerdict(tiers[i], set) # 0 - 1}
    IN  IF ends = {} THEN 0 ELSE CHOOSE m \in ends : \A n \in ends : n <= m

\* c, in ScoreUnit-ths: the least m / t over the replica-constraint groups.
ConstraintFraction(zone, tiers) ==
    IF Len(zone.replicaConstraints) = 0 THEN 0
    ELSE (Min({MatchedPrefix(tiers, zone.replicaConstraints[g]) :
                 g \in 1..Len(zone.replicaConstraints)}) * ScoreUnit) \div Len(tiers)

\* l, in ScoreUnit-ths: m / t of the first lease preference.
LeaseFraction(zone, tiers) ==
    IF Len(zone.leasePreferences) = 0 THEN 0
    ELSE (MatchedPrefix(tiers, zone.leasePreferences[1]) * ScoreUnit) \div Len(tiers)

ScoredNonEmpty == Scored /\ Len(costing.locality) >= 1 /\ ~EmptyZone(costing.zone)

HashJoinCosted ==
    /\ costing.phase = "done"
    /\ costing.candidate.op \in HashJoinOps
    /\ ~costing.candidate.disallowHashJoin

\* The same join with its two inputs swapped.
Swapped(join) == [join EXCEPT !.leftRows = join.rightRows, !.rightRows = join.leftRows]

HashJoinWeight(join, field) ==
    computeHashJoinCost(WithRows(join, field, 2)) - computeHashJoinCost(WithRows(join, field, 1))

FiniteRows(candidate) == \A field \in RowCountFields : candidate[field] # PosInf

\* C15 (as stated): the hash-join formula weighs a row of the right input less
\* than a row of the left input.
C15_RightWeightSmaller ==
    (HashJoinCosted /\ FiniteRows(costing.candidate))
        => HashJoinWeight(costing.candidate, "rightRows")
             < HashJoinWeight(costing.candidate, "leftRows")

\* C15 (amended): the hash-join formula weighs a row of the right input, the
\* one stored in the hash table, more than a row of the left input: 1.75 against
\* 1.25 times cpuCostFactor.
C15_RightWeightLarger ==
    (HashJoinCosted /\ FiniteRows(costing.candidate))
        => /\ HashJoinWeight(costing.candidate, "rightRows") = (175 * cpuCostFactor) \div 100
           /\ HashJoinWeight(costing.candidate, "leftRows") = (125 * cpuCostFactor) \div 100
           /\ HashJoinWeight(costing.candidate, "rightRows")
                > HashJoinWeight(costing.candidate, "leftRows")

\* A semi-join-apply, costed by the hash-join formula, with two rows on each
\* side: its cost holds 1.25 + 1.75 = 3 times cpuCostFactor per pair of rows.
C15_Witness ==
    /\ HashJoinCosted
    /\ costing.candidate.op = "SemiJoinApply"
    /\ costing.candidate.leftRows = 2
    /\ costing.candidate.rightRows = 2
    /\ costing.candidate.rowCount = 0
    /\ costing.perturbation = 0
    /\ costing.result.cost = 6 * cpuCostFactor + cpuCostFactor

GroupingCosted ==
    /\ costing.phase = "done"
    /\ costing.candidate.op \in GroupingOps
    /\ FiniteRows(costing.candidate)

\* What computeGroupingCost adds to the cost of emitting the rows and of
\* processing each input row: the cost of the hash table.
HashTableCost(grouping) ==
    computeGroupingCost(grouping)
      - grouping.rowCount * cpuCostFactor
      - grouping.leftRows * (grouping.items + grouping.groupingCols) * cpuCostFactor

\* C16: the hash-table part of the grouping cost is inputRows * cpuCostFactor *
\* (1 - n/g) for g grouping columns of which n arrive ordered: all of inputRows *
\* cpuCostFactor at n = 0, nothing at n = g, linear in n between, never
\* negative, and nothing, with no division, at g = 0.
C16_HashTableCostInterpolates ==
    GroupingCosted
        => LET grouping == costing.candidate
               g == grouping.groupingCols
               n == grouping.orderedCols
               full == grouping.leftRows * cpuCostFactor
           IN  /\ g > 0 => HashTableCost(grouping) * g = full * (g - n)
               /\ (g > 0 /\ n = 0) => HashTableCost(grouping) = full
               /\ (g > 0 /\ n = g) => HashTableCost(grouping) = 0
               /\ g = 0 => HashTableCost(grouping) = 0
               /\ HashTableCost(grouping) >= 0

\* A GroupBy on two columns, one of them ordered, over four input rows: half of
\* the full hash-table cost.
C16_Witness ==
    /\ GroupingCosted
    /\ costing.candidate.op = "GroupBy"
    /\ costing.candidate.groupingCols = 2
    /\ costing.candidate.orderedCols = 1
    /\ costing.candidate.leftRows = 4
    /\ HashTableCost(costing.candidate) = 2 * cpuCostFactor

CostedUnperturbed ==
    costing.phase = "done" /\ costing.perturbation = 0 /\ ~costing.result.panic

\* Every row-count estimate of the candidate is positive.
SomeRows(candidate) == \A field \in RowCountFields : candidate[field] > 0

\* C17 (as stated): with perturbation off ComputeCost returns the operator's
\* formula plus cpuCostFactor, once, and no operator kind is costed as the setup
\* cost alone: with rows to process, every kind's formula adds to it.
C17_NoOperatorCostedAsSetupAlone ==
    CostedUnperturbed
        => /\ costing.result.cost
                = FAdd(operatorCost(costing.candidate, costing.locality), cpuCostFactor)
           /\ SomeRows(costing.candidate) => costing.result.cost > cpuCostFactor

\* C17 (amended): with perturbation off ComputeCost returns the operator's
\* formula plus cpuCostFactor, once; every operator kind of the switch other
\* than Explain has a formula that adds to the setup cost when there are rows to
\* process, and Explain, which has none, is costed as the setup cost alone.
C17_SetupAddedOnceExplainAlone ==
    CostedUnperturbed
        => /\ costing.result.cost
                = FAdd(operatorCost(costing.candidate, costing.locality), cpuCostFactor)
           /\ (SomeRows(costing.candidate) /\ costing.candidate.op # "Explain")
                => costing.result.cost > cpuCostFactor
           /\ costing.candidate.op = "Explain" => costing.result.cost = cpuCostFactor

\* An Explain of four rows has been costed at cpuCostFactor.
C17_Witness ==
    /\ CostedUnperturbed
    /\ costing.candidate.op = "Explain"
    /\ costing.candidate.rowCount = 4
    /\ costing.result.cost = cpuCostFactor

\* C18: with perturbation 0 the cost does not depend on the random draw; with
\* perturbation p > 0 (kept in halves) and a raw cost c below hugeCost the cost
\* returned is in [max(0, c - p*c), c + p*c) and is not negative; a raw cost at
\* or above hugeCost is returned as it is.
C18_PerturbationBounds ==
    (costing.phase = "done" /\ ~costing.result.panic)
        => LET c == costing.result.raw
               p == costing.perturbation
               low == 2 * c - p * c
           IN  /\ p = 0 =>
                    /\ ~costing.result.rand
                    /\ \A multiplier \in Multipliers :
                         ComputeCost(costing.candidate, costing.locality, 0, multiplier)
                           = costing.result
               /\ (p > 0 /\ c < hugeCost) =>
                    /\ costing.result.rand
                    /\ 2 * costing.result.cost >= (IF low < 0 THEN 0 ELSE low)
                    /\ 2 * costing.result.cost < 2 * c + p * c
                    /\ costing.result.cost >= 0
               /\ c >= hugeCost => costing.result.cost = c

\* Perturbation 1.5 with the draw -1.0 took a cost below hugeCost to the floor.
C18_Witness ==
    /\ costing.phase = "done"
    /\ ~costing.result.panic
    /\ costing.perturbation = 3
    /\ costing.multiplier = 0 - 2
    /\ costing.result.raw > 0
    /\ costing.result.raw < hugeCost
    /\ costing.result.cost = 0

(***************************************************************************)
(* opt: util.FastIntSet, the storage behind ColSet.  A FastIntSet is a     *)
(* struct of a word of bits for the small values and a pointer to a sparse *)
(* set that takes over once a value outside the word is added.  The struct *)
(* is a record [small, large]; large is an index into mem, the sequence of *)
(* sparse sets allocated so far, and 0 is the nil pointer.  A struct       *)
(* assignment copies the word and the pointer.  An operation that writes   *)
(* returns the new struct and the new memory as [val, mem].                *)
(***************************************************************************)
smallCutoff == 8 * 8

NilSparse == 0

ZeroFastIntSet == [small |-> {}, large |-> NilSparse]

Stored(val, mem) == [val |-> val, mem |-> mem]

Members(set, mem) == IF set.large = NilSparse THEN set.small ELSE mem[set.large]

\* Moves the set to a sparse set of its own, which starts with the small values.
toLarge(set, mem) ==
    IF set.large # NilSparse THEN Stored(set, mem)
    ELSE Stored([set EXCEPT !.large = Len(mem) + 1], Append(mem, set.small))

FastIntSetAdd(set, mem, i) ==
    IF set.large = NilSparse /\ i \in 0..(smallCutoff - 1)
    THEN Stored([set EXCEPT !.small = @ \cup {i}], mem)
    ELSE LET l == toLarge(set, mem)
         IN  Stored(l.val, [l.mem EXCEPT ![l.val.large] = @ \cup {i}])

FastIntSetRemove(set, mem, i) ==
    IF set.large = NilSparse
    THEN Stored([set EXCEPT !.small = @ \ {i}], mem)
    ELSE Stored(set, [mem EXCEPT ![set.large] = @ \ {i}])

FastIntSetContains(set, mem, i) == i \in Members(set, mem)

FastIntSetEmpty(set, mem) == Members(set, mem) = {}

\* The smallest member at or after startVal, found by walking up from it.
RECURSIVE FastIntSetNextFrom(_, _, _)
FastIntSetNextFrom(members, i, top) ==
    IF i > top THEN [val |-> 0, ok |-> FALSE]
    ELSE IF i \in members THEN [val |-> i, ok |-> TRUE]
    ELSE FastIntSetNextFrom(members, i + 1, top)

FastIntSetNext(set, mem, startVal) ==
    LET members == Members(set, mem)
        top == IF members = {} THEN 0 - 1
               ELSE CHOOSE m \in members : \A o \in members : o <= m
    IN  FastIntSetNextFrom(members, startVal, top)

\* The calls ForEach makes, in order: the lowest bit left, then the next.
RECURSIVE FastIntSetForEachFrom(_, _)
FastIntSetForEachFrom(left, visited) ==
    IF left = {} THEN visited
    ELSE LET i == CHOOSE m \in left : \A o \in left : m <= o
         IN  FastIntSetForEachFrom(left \ {i}, Append(visited, i))

FastIntSetForEach(set, mem) == FastIntSetForEachFrom(Members(set, mem), <<>>)

FastIntSetCopy(set, mem) ==
    IF set.large = NilSparse THEN Stored([small |-> set.small, large |-> NilSparse], mem)
    ELSE Stored([small |-> set.small, large |-> Len(mem) + 1],
                Append(mem, mem[set.large]))

FastIntSetUnionWith(set, mem, rhs) ==
    IF set.large = NilSparse /\ rhs.large = NilSparse
    THEN Stored([set EXCEPT !.small = @ \cup rhs.small], mem)
    ELSE LET l == toLarge(set, mem)
         IN  Stored(l.val, [l.mem EXCEPT ![l.val.large] = @ \cup Members(rhs, l.mem)])

FastIntSetIntersectionWith(set, mem, rhs) ==
    IF set.large = NilSparse
    THEN Stored([set EXCEPT !.small = @ \cap Members(rhs, mem)], mem)
    ELSE Stored(set, [mem EXCEPT ![set.large] = @ \cap Members(rhs, mem)])

FastIntSetDifferenceWith(set, mem, rhs) ==
    IF set.large = NilSparse
    THEN Stored([set EXCEPT !.small = @ \ Members(rhs, mem)], mem)
    ELSE Stored(set, [mem EXCEPT ![set.large] = @ \ Members(rhs, mem)])

FastIntSetUnion(set, mem, rhs) ==
    LET r == FastIntSetCopy(set, mem) IN FastIntSetUnionWith(r.val, r.mem, rhs)

FastIntSetIntersection(set, mem, rhs) ==
    LET r == FastIntSetCopy(set, mem) IN FastIntSetIntersectionWith(r.val, r.mem, rhs)

FastIntSetDifference(set, mem, rhs) ==
    LET r == FastIntSetCopy(set, mem) IN FastIntSetDifferenceWith(r.val, r.mem, rhs)

(***************************************************************************)
(* opt: ColSet (colset.go), a struct of one FastIntSet.  Each method       *)
(* passes its arguments on to the method of the same name of its set and   *)
(* wraps what comes back.  s is the receiver: the methods with a pointer   *)
(* receiver write to the caller's struct (the val returned replaces it),   *)
(* the methods with a value receiver work on a struct copy of it.          *)
(***************************************************************************)
ColSet(set) == [set |-> set]

ZeroColSet == ColSet(ZeroFastIntSet)

Wrapped(r) == Stored(ColSet(r.val), r.mem)

Add(s, mem, col) == Wrapped(FastIntSetAdd(s.set, mem, col))

RECURSIVE MakeColSetFrom(_, _, _)
MakeColSetFrom(res, mem, vals) ==
    IF vals = <<>> THEN Stored(res, mem)
    ELSE LET r == Add(res, mem, Head(vals))
         IN  MakeColSetFrom(r.val, r.mem, Tail(vals))

MakeColSet(mem, vals) == MakeColSetFrom(ZeroColSet, mem, vals)

Remove(s, mem, col) == Wrapped(FastIntSetRemove(s.set, mem, col))

Contains(s, mem, col) == FastIntSetContains(s.set, mem, col)

Empty(s, mem) == FastIntSetEmpty(s.set, mem)

ColSetNext_AfterStart(s, mem, startVal) == FastIntSetNext(s.set, mem, startVal + 1)

ColSetNext(s, mem, startVal) == FastIntSetNext(s.set, mem, startVal)

ForEach(s, mem) == FastIntSetForEach(s.set, mem)

Copy_SameStruct(s, mem) == Stored(s, mem)

Copy(s, mem) == Wrapped(FastIntSetCopy(s.set, mem))

UnionWith(s, mem, rhs) == Wrapped(FastIntSetUnionWith(s.set, mem, rhs.set))

Union(s, mem, rhs) == Wrapped(FastIntSetUnion(s.set, mem, rhs.set))

IntersectionWith(s, mem, rhs) == Wrapped(FastIntSetIntersectionWith(s.set, mem, rhs.set))

Intersection(s, mem, rhs) == Wrapped(FastIntSetIntersection(s.set, mem, rhs.set))

DifferenceWith(s, mem, rhs) == Wrapped(FastIntSetDifferenceWith(s.set, mem, rhs.set))

Difference(s, mem, rhs) == Wrapped(FastIntSetDifference(s.set, mem, rhs.set))

(***************************************************************************)
(* opt: a caller holding two column sets, s and c, over one memory.  s is  *)
(* built by MakeColSet; c starts as the zero ColSet and becomes a Copy of  *)
(* s or a struct assignment of s.  Each step is one call on one of them,   *)
(* with the other one as rhs where the method takes one.                   *)
(***************************************************************************)
MaxSetOps == 2

MaxInitialVals == 2

ColumnIds == {1, smallCutoff - 1, smallCutoff}

StartVals == {0, 1, smallCutoff, smallCutoff + 1}

Handles == {"s", "c"}

Other(t) == IF t = "s" THEN "c" ELSE "s"

NoResult == [none |-> TRUE]

\* The inner projections InlineProjectProject is called with: the inner
\* Project synthesizes columns the caller's passthrough set may hold.
InnerProjectionLists ==
    {<<ProjectionsItem(smallCutoff, ConstructConst(5))>>,
     <<ProjectionsItem(1, TrueExpr), ProjectionsItem(smallCutoff - 1, ConstructConst(5))>>}

RECURSIVE removePassthroughRefs(_, _, _, _)
\* The loop of InlineProjectProject over the inner projections from item i
\* on, as it acts on the working set: newPassthrough.Remove(item.Col) for
\* each inner synthesized column the set holds.
removePassthroughRefs(innerProjections, i, newPassthrough, mem) ==
    IF i > Len(innerProjections) THEN Stored(newPassthrough, mem)
    ELSE IF Contains(newPassthrough, mem, innerProjections[i].col)
    THEN LET r == Remove(newPassthrough, mem, innerProjections[i].col)
         IN  removePassthroughRefs(innerProjections, i + 1, r.val, r.mem)
    ELSE removePassthroughRefs(innerProjections, i + 1, newPassthrough, mem)

\* The working set of InlineProjectProject: newPassthrough := passthrough is
\* a struct assignment of the parameter, itself a struct copy of the caller's
\* set; then the loop unless the set is empty.
newPassthroughOf(innerProjections, passthrough, mem) ==
    LET newPassthrough == passthrough
    IN  IF ~Empty(newPassthrough, mem)
        THEN removePassthroughRefs(innerProjections, 1, newPassthrough, mem)
        ELSE Stored(newPassthrough, mem)

InitColSet ==
    /\ IdleBuilder
    /\ norm = IdleNorm
    /\ costing = IdleCost
    /\ \E vals \in SeqsUpTo(ColumnIds, MaxInitialVals) :
         LET r == MakeColSet(<<>>, vals)
         IN  colsets = [phase |-> "run", s |-> r.val, c |-> ZeroColSet, mem |-> r.mem,
                        ops |-> 0, made |-> vals, origin |-> "zero",
                        call |-> [op |-> "MakeColSet", target |-> "s"],
                        out |-> NoResult]

IdleOthersColSet == UNCHANGED <<pc, aggIn, aggOut, aggs, groupStrs, nextCol, last, norm, costing>>

Calling == colsets.phase = "run" /\ colsets.ops < MaxSetOps

\* The call wrote to the receiver t through its pointer.
Written(t, op, r) ==
    /\ colsets' = [colsets EXCEPT ![t] = r.val, !.mem = r.mem, !.ops = @ + 1,
                                  !.call = [op |-> op, target |-> t],
                                  !.out = NoResult]
    /\ IdleOthersColSet

\* The call returned out; r.mem is the memory after it.
Returned(t, op, out, mem) ==
    /\ colsets' = [colsets EXCEPT !.mem = mem, !.ops = @ + 1,
                                  !.call = [op |-> op, target |-> t],
                                  !.out = out]
    /\ IdleOthersColSet

CallAdd(t, col) ==
    /\ Calling
    /\ Written(t, "Add", Add(colsets[t], colsets.mem, col))

CallRemove(t, col) ==
    /\ Calling
    /\ Written(t, "Remove", Remove(colsets[t], colsets.mem, col))

CallUnionWith(t) ==
    /\ Calling
    /\ Written(t, "UnionWith", UnionWith(colsets[t], colsets.mem, colsets[Other(t)]))

CallIntersectionWith(t) ==
    /\ Calling
    /\ Written(t, "IntersectionWith",
               IntersectionWith(colsets[t], colsets.mem, colsets[Other(t)]))

CallDifferenceWith(t) ==
    /\ Calling
    /\ Written(t, "DifferenceWith",
               DifferenceWith(colsets[t], colsets.mem, colsets[Other(t)]))

\* c = s.Copy()
CallCopy ==
    /\ Calling
    /\ LET r == Copy(colsets.s, colsets.mem)
       IN  colsets' = [colsets EXCEPT !.c = r.val, !.mem = r.mem, !.ops = @ + 1,
                                      !.origin = "Copy",
                                      !.call = [op |-> "Copy", target |-> "s"],
                                      !.out = NoResult]
    /\ IdleOthersColSet

\* c = s
CallAssign ==
    /\ Calling
    /\ colsets' = [colsets EXCEPT !.c = colsets.s, !.ops = @ + 1,
                                  !.origin = "assign",
                                  !.call = [op |-> "assign", target |-> "s"],
                                  !.out = NoResult]
    /\ IdleOthersColSet

CallUnion(t) ==
    /\ Calling
    /\ LET r == Union(colsets[t], colsets.mem, colsets[Other(t)])
       IN  Returned(t, "Union", r.val, r.mem)

CallIntersection(t) ==
    /\ Calling
    /\ LET r == Intersection(colsets[t], colsets.mem, colsets[Other(t)])
       IN  Returned(t, "Intersection", r.val, r.mem)

CallDifference(t) ==
    /\ Calling
    /\ LET r == Difference(colsets[t], colsets.mem, colsets[Other(t)])
       IN  Returned(t, "Difference", r.val, r.mem)

CallForEach(t) ==
    /\ Calling
    /\ Returned(t, "ForEach", ForEach(colsets[t], colsets.mem), colsets.mem)

CallNext(t, startVal) ==
    /\ Calling
    /\ Returned(t, "Next",
                [startVal |-> startVal, next |-> ColSetNext(colsets[t], colsets.mem, startVal)],
                colsets.mem)

\* InlineProjectProject(input, projections, s): the caller passes its set s
\* as passthrough.  The lists are Go slices the function only reads:
\* newProjections is made with an array of its own and the items appended to
\* it are copies.
CallInlineProjectProject(innerProjections) ==
    /\ Calling
    /\ LET input       == ProjectExpr("scan", innerProjections, {})
           projections == OuterProjections(<<ConstructVariable(innerProjections[1].col)>>)
           before      == Members(colsets.s.set, colsets.mem)
           r           == newPassthroughOf(innerProjections, colsets.s, colsets.mem)
       IN  Returned("s", "InlineProjectProject",
                    [input |-> input, projections |-> projections,
                     passthrough |-> before,
                     newPassthrough |-> Members(r.val.set, r.mem),
                     project |-> InlineProjectProject(input, projections, before).project],
                    r.mem)

NextColSet ==
    \/ \E t \in Handles, col \in ColumnIds : CallAdd(t, col)
    \/ \E t \in Handles, col \in ColumnIds : CallRemove(t, col)
    \/ \E t \in Handles : CallUnionWith(t)
    \/ \E t \in Handles : CallIntersectionWith(t)
    \/ \E t \in Handles : CallDifferenceWith(t)
    \/ CallCopy
    \/ CallAssign
    \/ \E t \in Handles : CallUnion(t)
    \/ \E t \in Handles : CallIntersection(t)
    \/ \E t \in Handles : CallDifference(t)
    \/ \E t \in Handles : CallForEach(t)
    \/ \E t \in Handles, startVal \in StartVals : CallNext(t, startVal)
    \/ \E innerProjections \in InnerProjectionLists :
          CallInlineProjectProject(innerProjections)

SpecColSet == InitColSet /\ [][NextColSet]_vars

(***************************************************************************)
(* opt: properties of ColSet.                                              *)
(***************************************************************************)
MembersOf(t) == Members(colsets[t].set, colsets.mem)

MembersAfter(t) == Members(colsets'[t].set, colsets'.mem)

InPlaceOps == {"Add", "Remove", "UnionWith", "IntersectionWith", "DifferenceWith"}

NonInPlaceOps == {"Union", "Intersection", "Difference"}

\* C19: while c is a Copy of s, a call of Add, Remove, UnionWith,
\* IntersectionWith or DifferenceWith on either of the two leaves the
\* membership of the other one as it was, through any sequence of such calls;
\* and a call of Union, Intersection or Difference leaves the membership of
\* its receiver and of its rhs as they were.
C19_CopyIsIndependent ==
    [][\A t \in Handles :
         /\ (colsets.origin = "Copy" /\ colsets'.call.target = t
                 /\ colsets'.call.op \in InPlaceOps)
              => MembersAfter(Other(t)) = MembersOf(Other(t))
         /\ (colsets'.call.op \in NonInPlaceOps)
              => MembersAfter(t) = MembersOf(t)]_vars

\* The copy of a set that lives in a sparse set was written to, and the two
\* now differ.
C19_Witness ==
    /\ colsets.phase = "run"
    /\ colsets.origin = "Copy"
    /\ colsets.call = [op |-> "Add", target |-> "c"]
    /\ colsets.s.set.large # NilSparse
    /\ colsets.c.set.large # NilSparse
    /\ MembersOf("s") # MembersOf("c")
    /\ MembersOf("s") # {}

StrictlyIncreasing(visited) ==
    \A i \in 1..Len(visited), j \in 1..Len(visited) : i < j => visited[i] < visited[j]

\* for i, ok := s.Next(0); ok; i, ok = s.Next(i + 1) { visit(i) }
RECURSIVE IterateNext(_, _, _, _)
IterateNext(s, mem, startVal, visited) ==
    LET n == ColSetNext(s, mem, startVal)
    IN  IF n.ok THEN IterateNext(s, mem, n.val + 1, Append(visited, n.val)) ELSE visited

NextIsSmallestFrom(s, mem, startVal) ==
    LET n == ColSetNext(s, mem, startVal)
        from == {m \in Members(s.set, mem) : m >= startVal}
    IN  IF from = {} THEN ~n.ok
        ELSE n.ok /\ n.val \in from /\ \A m \in from : n.val <= m

\* C20: for each of the two sets, however it was reached, ForEach visits
\* exactly the members, each one once, in strictly increasing order; Next
\* returns the smallest member at or after its start value, and reports that
\* there is none when there is none; and the loop over Next from the value
\* after the last one visits what ForEach visits.
C20_IterationAscending ==
    colsets.phase = "run" =>
        \A t \in Handles :
            LET visited == ForEach(colsets[t], colsets.mem)
            IN  /\ Len(visited) = Cardinality(MembersOf(t))
                /\ {visited[i] : i \in 1..Len(visited)} = MembersOf(t)
                /\ StrictlyIncreasing(visited)
                /\ \A startVal \in StartVals :
                       NextIsSmallestFrom(colsets[t], colsets.mem, startVal)
                /\ IterateNext(colsets[t], colsets.mem, 0, <<>>) = visited
                /\ (colsets.call = [op |-> "ForEach", target |-> t]
                        => colsets.out = visited)

\* A set whose larger member went in first, and then a member was added
\* again in the other order, was visited by ForEach in increasing order.
C20_Witness ==
    /\ colsets.phase = "run"
    /\ colsets.made = <<smallCutoff, 1>>
    /\ colsets.call = [op |-> "ForEach", target |-> "s"]
    /\ colsets.s.set.small # MembersOf("s")
    /\ colsets.out = <<1, smallCutoff - 1, smallCutoff>>

(***************************************************************************)
(* norm: further properties of constant inlining.                          *)
(***************************************************************************)
ConstValueOps == {"Const", "True", "False", "Null"}

\* C21: FindInlinableConstants of a Project is exactly the set of the
\* projection columns whose element is a const, true, false or null operator,
\* and none of the passthrough columns; of a Values with exactly one row,
\* exactly the columns whose element in that row is such an operator; of any
\* other input, a Values with no row or several rows included, the empty set.
C21_InlinableConstantsExact ==
    NormApplied("FindInlinableConstants") =>
        LET input == norm.input
            cols == norm.result
        IN  /\ input.op = "Project" =>
                /\ \A col \in OutputCols(input) \cup cols :
                     col \in cols <=>
                        \E item \in Range(input.projections) :
                            item.col = col /\ item.element.op \in ConstValueOps
                /\ cols \cap input.passthrough = {}
            /\ (input.op = "Values" /\ Len(input.rows) = 1) =>
                \A col \in OutputCols(input) \cup cols :
                     col \in cols <=>
                        \E i \in 1..Len(input.cols) :
                            input.cols[i] = col /\ input.rows[1][i].op \in ConstValueOps
            /\ (input.op = "Values" /\ Len(input.rows) # 1) => cols = {}
            /\ (input.op \notin {"Project", "Values"}) => cols = {}

\* A Project with a computed and a constant projection and a passthrough
\* column gave the column of the constant alone.
C21_Witness ==
    /\ NormApplied("FindInlinableConstants")
    /\ norm.input.op = "Project"
    /\ Len(norm.input.projections) = 2
    /\ ~IsConstValueOp(norm.input.projections[1].element)
    /\ norm.input.passthrough # {}
    /\ norm.result = {3}

(***************************************************************************)
(* optbuilder: constructAggregate and constructWindowFn called with one    *)
(* function name and one list of built arguments.                          *)
(***************************************************************************)
MaxArgs == 3

\* The names the two dispatch tables list, and two names neither lists.
WindowFnNames ==
    NoArgWindowFns \cup OneArgWindowFns \cup ThreeArgWindowFns \cup {"nth_value", "string_agg"}

AggregateNames == {"count_rows", "string_agg"} \cup OneArgAggregates

FunctionNames == WindowFnNames \cup AggregateNames \cup {"abs", "no_such_agg"}

\* Built arguments: a column reference and a constant.
ArgLists == SeqsUpTo({Col1, ConstructConst(7)}, MaxArgs)

InitConstruct ==
    /\ pc = [at |-> "construct", calls |-> 0]
    /\ aggIn = [s \in ScopeIds |-> <<>>]
    /\ aggOut = [s \in ScopeIds |-> <<>>]
    /\ aggs = [s \in ScopeIds |-> <<>>]
    /\ groupStrs = <<>>
    /\ nextCol = FirstSynthesizedCol
    /\ \E name \in FunctionNames, args \in ArgLists :
         last = [op |-> "none", name |-> name, args |-> args]
    /\ norm = IdleNorm
    /\ costing = IdleCost
    /\ colsets = IdleColSets

ConstructAggregate ==
    /\ pc.at = "construct"
    /\ pc.calls = 0
    /\ last' = [op |-> "constructAggregate", name |-> last.name, args |-> last.args,
                result |-> constructAggregate(last.name, last.args)]
    /\ pc' = [pc EXCEPT !.calls = @ + 1]
    /\ UNCHANGED <<aggIn, aggOut, aggs, groupStrs, nextCol, norm, costing, colsets>>

ConstructWindowFn ==
    /\ pc.at = "construct"
    /\ pc.calls = 0
    /\ last' = [op |-> "constructWindowFn", name |-> last.name, args |-> last.args,
                result |-> constructWindowFn(last.name, last.args)]
    /\ pc' = [pc EXCEPT !.calls = @ + 1]
    /\ UNCHANGED <<aggIn, aggOut, aggs, groupStrs, nextCol, norm, costing, colsets>>

NextConstruct == ConstructAggregate \/ ConstructWindowFn

SpecConstruct == InitConstruct /\ [][NextConstruct]_vars

(***************************************************************************)
(* optbuilder: properties of the two dispatch tables.                      *)
(***************************************************************************)
Constructed(fn) == pc.at = "construct" /\ last.op = fn

\* The call ended in the internal assertion and constructed nothing.
UnhandledAggregate(result) ==
    result.err = "assertion: unhandled aggregate" /\ result.expr = NilExpr

\* C22: constructAggregate called with a name its dispatch does not list ends
\* in the internal assertion "unhandled aggregate", whatever the arguments
\* are, and constructs no operator; constructWindowFn called with a name that
\* neither dispatch lists ends in the same assertion.
C22_UnknownNameIsAssertion ==
    /\ (Constructed("constructAggregate") /\ last.name \notin AggregateNames)
            => UnhandledAggregate(last.result)
    /\ (Constructed("constructWindowFn")
            /\ last.name \notin WindowFnNames \cup AggregateNames)
            => UnhandledAggregate(last.result)

\* constructWindowFn was called with a name neither table lists and with
\* arguments, and ended in the assertion.
C22_Witness ==
    /\ Constructed("constructWindowFn")
    /\ last.name = "no_such_agg"
    /\ Len(last.args) = 2
    /\ UnhandledAggregate(last.result)

StringAggNonConstant ==
    /\ last.name = "string_agg"
    /\ Len(last.args) >= 2
    /\ ~CanExtractConstDatum(last.args[2])

NotImplemented(result) ==
    result.err = "unimplemented: string_agg" /\ result.expr = NilExpr

\* C23 as stated: string_agg with a second argument that is not a constant
\* ends in the "not implemented" error naming string_agg and constructs no
\* operator, both in constructAggregate and in constructWindowFn.
C23_NonConstantSeparatorUnimplemented ==
    ((Constructed("constructAggregate") \/ Constructed("constructWindowFn"))
        /\ StringAggNonConstant)
        => NotImplemented(last.result)

\* C23 amended: in constructAggregate, string_agg with a second argument
\* that is not a constant ends in the "not implemented" error naming
\* string_agg and constructs no operator; in constructWindowFn the same call
\* constructs the string_agg operator over the two arguments.
C23_NonConstantSeparatorAggregateOnly ==
    /\ (Constructed("constructAggregate") /\ StringAggNonConstant)
            => NotImplemented(last.result)
    /\ (Constructed("constructWindowFn") /\ StringAggNonConstant)
            => /\ last.result.err = "none"
               /\ last.result.expr = Node("string_agg", 0, <<last.args[1], last.args[2]>>)

\* constructAggregate refused string_agg(a, a).
C23_Witness ==
    /\ Constructed("constructAggregate")
    /\ last.name = "string_agg"
    /\ last.args = <<Col1, Col1>>
    /\ NotImplemented(last.result)

(***************************************************************************)
(* optbuilder: further properties of buildAggregation.                     *)
(***************************************************************************)
OrderingSensitiveNames == {"array_agg", "concat_agg", "string_agg", "json_agg", "jsonb_agg"}

OrderedSensitiveAggregate ==
    \E i \in 1..Len(aggs[1]) :
        aggs[1][i].def \in OrderingSensitiveNames /\ aggs[1][i].orderBy

\* C24: buildAggregation takes the window-function path exactly when one of
\* the scope's aggregates is ordering-sensitive (array_agg, concat_agg,
\* string_agg, json_agg, jsonb_agg) and has an ORDER BY.  In every other case
\* it takes the grouping path, and where the construction of the aggregates
\* goes through, the result is the grouping operator over the pre-projection.
C24_WindowPathIffOrderedSensitive ==
    last.op = "buildAggregation" =>
        /\ last.path = "window" <=> OrderedSensitiveAggregate
        /\ ~OrderedSensitiveAggregate =>
              /\ last.path = "groupby"
              /\ last.err = "none" =>
                    /\ last.groupBy.op \in {"GroupBy", "ScalarGroupBy"}
                    /\ last.groupBy.input.op = "Project"

\* array_agg without ORDER BY and sum with ORDER BY were built by the
\* grouping path.
C24_Witness ==
    /\ last.op = "buildAggregation"
    /\ \E i \in 1..Len(aggs[1]) : aggs[1][i].def = "array_agg" /\ ~aggs[1][i].orderBy
    /\ \E i \in 1..Len(aggs[1]) : aggs[1][i].def = "sum" /\ aggs[1][i].orderBy
    /\ last.path = "groupby"
    /\ last.err = "none"
    /\ last.groupBy.input.op = "Project"

\* Some expression of the list refers to a column of constCols that the
\* input does not define.
RefersToUndefined(exprs, input, constCols) ==
    \E i \in 1..Len(exprs) : (VarRefs(exprs[i]) \cap constCols) \ DefinedCols(input) # {}

ConstantsApplied ==
    NormApplied("InlineFilterConstants") \/ NormApplied("InlineProjectionConstants")

\* C25: inlining constants into a list of expressions ends in the assertion
\* "could not find column to extract", and returns nothing, exactly when one
\* of the expressions refers to a column of constCols that the input does not
\* define: a Project without a projection for it, a Values whose row count is
\* not one, or another operator.  With constCols as FindInlinableConstants
\* gives them for the same input, the assertion is not reached.
C25_AssertionIffUndefinedColumn ==
    ConstantsApplied =>
        /\ norm.result.err <=> RefersToUndefined(norm.exprs, norm.input, norm.cols)
        /\ norm.result.err => norm.result.items = <<>>
        /\ norm.cols = FindInlinableConstants(norm.input) => ~norm.result.err

\* A projection referring to column 4 was inlined over a Project that defines
\* column 3 only, with both columns in constCols; and the assertion was
\* raised.
C25_Witness ==
    /\ NormApplied("InlineProjectionConstants")
    /\ norm.input.op = "Project"
    /\ DefinedCols(norm.input) = {3}
    /\ norm.cols = {3, 4}
    /\ 4 \in VarRefs(norm.exprs[1])
    /\ norm.result.err

\* Constants found by FindInlinableConstants were inlined without assertion.
C25_WitnessFound ==
    /\ NormApplied("InlineFilterConstants")
    /\ norm.cols = FindInlinableConstants(norm.input)
    /\ norm.cols # {}
    /\ VarRefs(norm.exprs[1]) \cap norm.cols # {}
    /\ ~norm.result.err

(***************************************************************************)
(* norm: further properties of projection inlining.                        *)
(***************************************************************************)
RECURSIVE MeetsCorrelated(_)
\* Walking down from e without entering a relational subexpression, one with
\* outer columns is met.
MeetsCorrelated(e) ==
    IF e.op = "Variable" THEN FALSE
    ELSE IF IsRelExpr(e) THEN OuterCols(e) # {}
    ELSE \E i \in 1..Len(e.kids) : MeetsCorrelated(e.kids[i])

RECURSIVE RelExprsOf(_)
\* The relational subexpressions met the same way.
RelExprsOf(e) ==
    IF IsRelExpr(e) THEN {e}
    ELSE UNION {RelExprsOf(e.kids[i]) : i \in 1..Len(e.kids)}

ProjectionsInlined ==
    NormApplied("InlineSelectProject") \/ NormApplied("InlineProjectProject")

\* C26: when HasDuplicateRefs is false for the outer projections (with the
\* passthrough columns of the call and any target columns), InlineProjectProject
\* over them does not reach the assertion "cannot inline references within
\* correlated subqueries".  inlineProjections raises it exactly when it meets
\* a relational subexpression with outer columns; a relational subexpression
\* without outer columns comes back as it was.
C26_CorrelatedSubqueryAssertion ==
    /\ NormApplied("InlineProjectProject") =>
          \A targetCols \in SUBSET SynthesizedCols :
              ~HasDuplicateRefs(OuterProjections(norm.exprs), norm.passthrough, targetCols)
                  => ~norm.result.err
    /\ ProjectionsInlined =>
          norm.result.err <=> \E i \in 1..Len(norm.exprs) : MeetsCorrelated(norm.exprs[i])
    /\ (NormApplied("InlineProjectProject") /\ ~norm.result.err) =>
          \A i \in 1..Len(norm.exprs) :
              RelExprsOf(norm.result.project.projections[i].element)
                  = RelExprsOf(norm.exprs[i])
    /\ (NormApplied("InlineSelectProject") /\ ~norm.result.err) =>
          \A i \in 1..Len(norm.exprs) :
              RelExprsOf(norm.result.items[i].condition) = RelExprsOf(norm.exprs[i])

\* A projection comparing an inner synthesized column with an uncorrelated
\* subquery passed HasDuplicateRefs and was inlined: the reference was
\* replaced and the subquery kept.
C26_Witness ==
    /\ NormApplied("InlineProjectProject")
    /\ norm.exprs = <<ConstructEq(ConstructVariable(3), UncorrelatedSubquery)>>
    /\ ~HasDuplicateRefs(OuterProjections(norm.exprs), norm.passthrough, SynthesizedCols)
    /\ ~norm.result.err
    /\ norm.result.project.projections[1].element # norm.exprs[1]
    /\ RelExprsOf(norm.result.project.projections[1].element) # {}

(***************************************************************************)
(* xform: the locality match score under reordered constraint sets.        *)
(***************************************************************************)
\* The orders in which the constraints of one set can be listed.
Reorderings(set) ==
    {[i \in 1..Len(set) |-> set[p[i]]] :
        p \in {q \in [1..Len(set) -> 1..Len(set)] :
                 \A i, j \in 1..Len(set) : q[i] = q[j] => i = j}}

RECURSIVE ReorderedLists(_)
\* The lists of sets that list the same constraints, set by set.
ReorderedLists(sets) ==
    IF sets = <<>> THEN {<<>>}
    ELSE {<<first>> \o rest : first \in Reorderings(Head(sets)),
                              rest \in ReorderedLists(Tail(sets))}

ReorderedZones(zone) ==
    {Zone(groups, prefs) : groups \in ReorderedLists(zone.replicaConstraints),
                           prefs \in ReorderedLists(zone.leasePreferences)}

\* The set holds a required and a prohibited constraint for one key and value.
Conflicting(set) ==
    \E i, j \in 1..Len(set) :
        /\ set[i].key = set[j].key
        /\ set[i].value = set[j].value
        /\ set[i].required /\ ~set[j].required

\* C27: the score does not depend on the order in which the constraints of a
\* replica-constraint group or of a lease preference are listed, sets with a
\* required and a prohibited constraint for the same key and value included.
C27_ScoreIgnoresConstraintOrder ==
    Scored =>
        \A zone \in ReorderedZones(costing.zone) :
            localityMatchScore(zone, costing.locality) = costing.score

\* The same over the zones none of whose sets holds a required and a
\* prohibited constraint for the same key and value.
ScoreIgnoresConstraintOrderWithoutConflict ==
    (Scored /\ \A set \in Range(costing.zone.replicaConstraints)
                            \cup Range(costing.zone.leasePreferences) : ~Conflicting(set)) =>
        \A zone \in ReorderedZones(costing.zone) :
            localityMatchScore(zone, costing.locality) = costing.score

(***************************************************************************)
(* optbuilder: the argument columns consumed by buildAggregation.          *)
(***************************************************************************)
\* The variable under the distinct and filter markers of a first argument.
WiredVariable(arg) ==
    LET unfiltered == IF arg.op = "AggFilter" THEN arg.kids[1] ELSE arg
    IN  IF unfiltered.op = "AggDistinct" THEN unfiltered.kids[1] ELSE unfiltered

\* C28: buildAggregation consumes the argument columns in step with the
\* aggregates: it never reads past the end of the argument columns; when it
\* has constructed every aggregate no argument column is left over; and the
\* variable wired as the first argument of each aggregate that has arguments
\* is the column built for that aggregate's own first argument.
C28_ArgColsInStep ==
    (last.op = "buildAggregation" /\ last.path = "groupby") =>
        /\ last.err # "index out of range"
        /\ last.err = "none" =>
              /\ last.leftover = <<>>
              /\ \A i \in 1..Len(aggs[1]) :
                    Len(aggs[1][i].args) > 0 =>
                        LET v == WiredVariable(aggOut[1][i].scalar.kids[1])
                        IN  /\ v.op = "Variable"
                            /\ \E c \in Range(getAggregateArgCols(aggIn[1], Len(last.groupingCols))) :
                                  c.id = v.val /\ ColumnOfArg(c, aggs[1][i].args[1])

\* The same over the builds none of whose aggregates has a FILTER and no
\* argument.
ArgColsInStepWithoutFilteredCountRows ==
    (last.op = "buildAggregation" /\ last.path = "groupby"
        /\ \A i \in 1..Len(aggs[1]) :
              ~(Len(aggs[1][i].args) = 0 /\ aggs[1][i].filter # NilExpr)) =>
        /\ last.err # "index out of range"
        /\ last.err = "none" =>
              /\ last.leftover = <<>>
              /\ \A i \in 1..Len(aggs[1]) :
                    Len(aggs[1][i].args) > 0 =>
                        LET v == WiredVariable(aggOut[1][i].scalar.kids[1])
                        IN  /\ v.op = "Variable"
                            /\ \E c \in Range(getAggregateArgCols(aggIn[1], Len(last.groupingCols))) :
                                  c.id = v.val /\ ColumnOfArg(c, aggs[1][i].args[1])

(***************************************************************************)
(* norm: what InlineProjectProject leaves of its inputs.                   *)
(***************************************************************************)
ProjectInlined == colsets.phase = "run" /\ colsets.call.op = "InlineProjectProject"

\* C29: after InlineProjectProject the caller's passthrough set holds the
\* columns it held before the call; the function's removals reach its
\* working set only.  The outer projections and the inner Project's
\* projections are as they were.
C29_InputsUnchanged ==
    ProjectInlined =>
        /\ MembersOf("s") = colsets.out.passthrough
        /\ colsets.out.input.projections \in InnerProjectionLists
        /\ colsets.out.projections
             = OuterProjections(<<ConstructVariable(colsets.out.input.projections[1].col)>>)

\* The same over the calls whose passthrough set has never held a column
\* beyond the small word.
InputsUnchangedWhileSmall ==
    (ProjectInlined /\ colsets.s.set.large = NilSparse) =>
        MembersOf("s") = colsets.out.passthrough

\* A passed-through inner column was removed from the working set.
PassthroughRemoved ==
    /\ ProjectInlined
    /\ colsets.out.newPassthrough # colsets.out.passthrough
    /\ colsets.out.project.passthrough = colsets.out.newPassthrough

(***************************************************************************)
(* C30: the cost ComputeCost returns is never negative.                    *)
(***************************************************************************)
\* The match score rowScanCost subtracts from 1, for a candidate that scans an
\* index from a node that has locality tiers.
AdjustedScore == localityMatchScore(costing.candidate.zone, costing.locality)

Adjusts == ReadsZone(costing.candidate) /\ Len(costing.locality) # 0

\* C30: every cost ComputeCost returns is non-negative, whatever the operator,
\* the row-count estimates, the locality, the zone and the perturbation: the
\* cost before the perturbation is not negative, the match score rowScanCost
\* subtracts from 1 is between 0 and 1, and the cost returned after the
\* perturbation is not negative.
C30_CostNeverNegative ==
    (costing.phase = "done" /\ ~costing.result.panic)
        => /\ costing.result.raw >= 0
           /\ costing.result.cost >= 0
           /\ Adjusts => (AdjustedScore >= 0 /\ AdjustedScore <= ScoreUnit)

\* A scan whose zone the locality matches fully, so that the adjustment is 0,
\* perturbed by 1.5 with the draw -1.0: the cost returned is the floor.
C30_Witness ==
    /\ costing.phase = "done"
    /\ ~costing.result.panic
    /\ costing.candidate.op = "Scan"
    /\ costing.candidate.rowCount > 1
    /\ Adjusts
    /\ AdjustedScore = ScoreUnit
    /\ costing.perturbation = 3
    /\ costing.multiplier = 0 - 2
    /\ costing.result.raw > cpuCostFactor
    /\ costing.result.cost = 0

====
